---- MODULE Spec2Model ----
(***************************************************************************)
(* Model of the convolution algorithm-selection engine of MIOpen:          *)
(*   src/src/convolution.cpp        shape calculator, workspace planner,    *)
(*                                  applicability predicates                *)
(*   src/src/ocl/convolutionocl.cpp search engine and execution dispatcher  *)
(* One Handle (device/queue context) with its six caches, its profiling     *)
(* flag and its kernel-time counter, and one caller issuing workspace       *)
(* queries, searches and execute calls.                                     *)
(***************************************************************************)
EXTENDS Integers, Sequences, FiniteSets, TLC

VARIABLES
    device,              \* Handle::GetDeviceName()
    fwd_size_map,        \* handle.fwd_size_map        key -> workspace size
    bwdData_size_map,    \* handle.bwdData_size_map
    bwdWeights_size_map, \* handle.bwdWeights_size_map
    fwd_map,             \* handle.fwd_map             key -> algorithm id
    bwdData_map,         \* handle.bwdData_map
    bwdWeights_map,      \* handle.bwdWeights_map
    enable_profiling,    \* Handle::IsProfilingEnabled()
    kernel_time,         \* Handle::GetKernelTime()
    kernels,             \* kernels / GEMM geometries registered: {<<algorithm, network_config>>}
    pc,                  \* position of the call in progress ("idle" between calls)
    call,                \* arguments and entry snapshot of the call in progress / last call
    perf_db,             \* std::vector<PerfField> of the search in progress / last search
    launched,            \* kernels launched by the call in progress / last call, in order
    returnedAlgoCount,   \* *returnedAlgoCount of the last call (0 when it has none)
    perfResults,         \* perfResults[] array of the last call (empty when it has none)
    status,              \* outcome of the last call
    wsResult,            \* value returned by the last call when a workspace query, else 0
    exec,                \* what the last call did when an execute call
    ncalls,              \* number of calls issued so far
    layer,               \* the layer the caller works on: direction and tensor shapes
    winners              \* caller's notes: <<search, problem>> -> first winner reported

vars == <<device, fwd_size_map, bwdData_size_map, bwdWeights_size_map, fwd_map,
          bwdData_map, bwdWeights_map, enable_profiling, kernel_time, kernels, pc,
          call, perf_db, launched, returnedAlgoCount, perfResults, status, wsResult,
          exec, ncalls, layer, winners>>

caches == <<fwd_size_map, bwdData_size_map, bwdWeights_size_map, fwd_map,
            bwdData_map, bwdWeights_map>>

(***************************************************************************)
(* Bounds of the model.                                                    *)
(***************************************************************************)
MaxCalls == 3          \* calls issued on the handle in one behaviour
MaxTime == 2           \* kernel durations are drawn from 1..MaxTime
MaxRequest == 2        \* requestAlgoCount is drawn from 0..MaxRequest

Times == 1..MaxTime

Max(a, b) == IF a >= b THEN a ELSE b
Min(a, b) == IF a <= b THEN a ELSE b

(***************************************************************************)
(* Problems: a ConvolutionDescriptor (mode, pad, stride, dilation), the     *)
(* lengths of the three tensors (x / dx, w / dw, y / dy) and their element  *)
(* type.  The answers of the external solver and FFT collaborators for the  *)
(* problem are carried in the record (direct_ws, direct_kernels,            *)
(* wrw_kernels, wrw_ws, fft_ws): they are inputs of the engine, fixed for   *)
(* a given problem.                                                         *)
(***************************************************************************)
Desc(mode, pad, stride, dil) ==
    [mode |-> mode, pad_h |-> pad, pad_w |-> pad, u |-> stride, v |-> stride,
     dilation_h |-> dil, dilation_w |-> dil]

Problem(cd, x, w, y, ext) ==
    [mode |-> cd.mode, pad_h |-> cd.pad_h, pad_w |-> cd.pad_w, u |-> cd.u, v |-> cd.v,
     dilation_h |-> cd.dilation_h, dilation_w |-> cd.dilation_w,
     x |-> x, w |-> w, y |-> y, type |-> "miopenFloat",
     direct_ws |-> ext[1], wrw_kernels |-> ext[2], wrw_ws |-> ext[3], fft_ws |-> ext[4],
     direct_kernels |-> <<"MIOpenConvUni">>]

NoExt == <<0, <<"MIOpenCvBwdWrW">>, 0, 0>>

\* 1x1, stride 1, no padding, 4x4 image, K = C
P_1x1 == Problem(Desc("miopenConvolution", 0, 1, 1),
                 <<2, 2, 4, 4>>, <<2, 2, 1, 1>>, <<2, 2, 4, 4>>, NoExt)
\* the same shapes and parameters in transpose mode
P_1x1T == Problem(Desc("miopenTranspose", 0, 1, 1),
                  <<2, 2, 4, 4>>, <<2, 2, 1, 1>>, <<2, 2, 4, 4>>, NoExt)
\* 1x1, stride 2, no padding: direct backward-weights runs SubSample + main kernel
P_1x1s2 == Problem(Desc("miopenConvolution", 0, 2, 1),
                   <<2, 2, 4, 4>>, <<2, 2, 1, 1>>, <<2, 2, 2, 2>>,
                   <<0, <<"SubSample", "gcnAsmConv1x1WrW">>, 64, 0>>)
\* 3x3, pad 1, stride 1, 16 input channels: Winograd-eligible on gfx803/gfx900
P_3x3 == Problem(Desc("miopenConvolution", 1, 1, 1),
                 <<1, 16, 4, 4>>, <<2, 16, 3, 3>>, <<1, 2, 4, 4>>,
                 <<0, <<"gcnAsmConv3x3WrW">>, 0, 0>>)
\* the same three shapes with pad 2 and dilation 2
P_3x3d2 == Problem(Desc("miopenConvolution", 2, 1, 2),
                   <<1, 16, 4, 4>>, <<2, 16, 3, 3>>, <<1, 2, 4, 4>>, NoExt)
\* 5x5, pad 2, stride 1: FFT-capable, direct backward-weights needs a reduction pass
P_5x5 == Problem(Desc("miopenConvolution", 2, 1, 1),
                 <<1, 2, 4, 4>>, <<2, 2, 5, 5>>, <<1, 2, 4, 4>>,
                 <<0, <<"MIOpenCvBwdWrW", "MIOpenCvBwdWrW_rdc">>, 256, 4096>>)

Problems == {P_1x1, P_1x1T, P_1x1s2, P_3x3, P_3x3d2, P_5x5}

\* 5x5, pad 2, stride 1 on a 256x128 image with 512 input channels: the im2col
\* buffer takes 512*5*5*256*128*4 = 1677721600 bytes, more than 1 GiB
P_big == Problem(Desc("miopenConvolution", 2, 1, 1),
                 <<1, 512, 256, 128>>, <<2, 512, 5, 5>>, <<1, 2, 256, 128>>, NoExt)

BigProblems == {P_big}

\* 1x1, stride 1, pad 1 on a 4x4 image: the output is 6x6
P_1x1p1 == Problem(Desc("miopenConvolution", 1, 1, 1),
                   <<2, 2, 4, 4>>, <<2, 2, 1, 1>>, <<2, 2, 6, 6>>, NoExt)

PaddedProblems == {P_1x1p1}

AllProblems == Problems \cup BigProblems \cup PaddedProblems

Devices == {"gfx803", "gfx900"}

Directions == {"fwd", "bwdData", "bwdWeights"}

ShapeOf(p) == <<p.x, p.w, p.y>>

\* The calls of one behaviour are about one layer: one direction and one triple
\* of tensor shapes, with any of the descriptors that fit the shapes.
Layers == [dir : Directions, shape : {ShapeOf(p) : p \in Problems}]

\* The layers whose im2col buffer exceeds the capacity limit of gfx803.
BigLayers == [dir : Directions, shape : {ShapeOf(p) : p \in BigProblems}]

\* The layers of a padded 1x1 convolution.
PaddedLayers == [dir : Directions, shape : {ShapeOf(p) : p \in PaddedProblems}]

ProblemsOf(dir) == {p \in AllProblems : layer.dir = dir /\ ShapeOf(p) = layer.shape}

GetTypeSize(t) == IF t = "miopenFloat" THEN 4 ELSE 2

GetElementSize(len) == len[1] * len[2] * len[3] * len[4]

\* Build-time and environment switches.
UseMIOpenGEMM == TRUE            \* MIOPEN_USE_MIOPENGEMM
DirectDisabled == FALSE          \* IsDisabled(MIOPEN_DEBUG_CONV_DIRECT)
PrecompiledDisabled == FALSE     \* IsDisabled(MIOPEN_DEBUG_AMD_ROCM_PRECOMPILED_BINARIES)
MaxComputeUnits == 64            \* Handle::GetMaxComputeUnits()

Pow2_16 == 65536
Pow2_28 == 268435456
OneGiB == 1073741824

(***************************************************************************)
(* Configuration key.  mlo_construct_direct2D::mloBuildConf_Key encodes    *)
(* what was set on the construct object: the direction, the three tensor    *)
(* shapes, the element type and the convolution parameters.  A construct    *)
(* object on which setConvDescr was not called still holds the parameters   *)
(* of its constructor.  The mode is never given to the construct object.    *)
(***************************************************************************)
DefaultConvDescr == <<1, 1, 1, 1, 1, 1>>

ConvDescrOf(p) == <<p.pad_h, p.pad_w, p.u, p.v, p.dilation_h, p.dilation_w>>

mloBuildConf_Key(direction, p, conv) ==
    [forward |-> direction, in |-> p.x, wei |-> p.w, out |-> p.y, type |-> p.type,
     conv |-> conv]

(***************************************************************************)
(* Applicability predicates (convolution.cpp).                             *)
(***************************************************************************)
IsWinograd3x3Supported(p, direction, wLen, xLen) ==
    IF PrecompiledDisabled THEN FALSE
    ELSE IF ~(device \in {"gfx803", "gfx900", "gfx906"}) THEN FALSE
    ELSE LET device_is_gfx8 == device = "gfx803"
             n_inputs == xLen[2]
             in_height == xLen[3]
             in_width == xLen[4]
             n_outputs == IF direction = 1 THEN wLen[1] ELSE wLen[2]
         IN  /\ p.pad_h = 1 /\ p.pad_w = 1 /\ wLen[3] = 3 /\ wLen[4] = 3
             /\ p.u = 1 /\ p.v = 1
             /\ xLen[1] < Pow2_16 /\ n_inputs < Pow2_16 /\ n_outputs < Pow2_16
             /\ in_height < Pow2_16 /\ in_width < Pow2_16 /\ MaxComputeUnits < Pow2_16
             /\ n_inputs * in_height * in_width <= Pow2_28
             /\ n_outputs * in_height * in_width <= Pow2_28
             /\ n_inputs * 3 * 3 <= Pow2_28
             /\ n_outputs * 3 * 3 <= Pow2_28
             /\ n_inputs % 2 = 0
             /\ n_inputs >= (IF device_is_gfx8 THEN 16 ELSE 18)
             /\ GetTypeSize(p.type) = 4

SupportedFilters(p, k0, k1) ==
    \/ (k0 = 1 /\ k1 = 1) \/ (k0 = 3 /\ k1 = 3) \/ (k0 = 5 /\ k1 = 5)
    \/ (k0 = 7 /\ k1 = 7) \/ (k0 = 9 /\ k1 = 9) \/ (k0 = 11 /\ k1 = 11)
    \/ (k0 = 5 /\ k1 = 10 /\ p.u = 2 /\ p.v = 2 /\ p.pad_h = 0 /\ p.pad_w = 0)
    \/ (k0 = 5 /\ k1 = 20 /\ p.u = 2 /\ p.v = 2 /\ p.pad_h = 0 /\ p.pad_w = 0)

IsBwdWeightsDirectSupported(p) ==
    LET k0 == p.w[3]
        k1 == p.w[4]
        workarounds == \/ (k0 = 1 /\ k1 = 1 /\ (p.u > 2 \/ p.v > 2))
                       \/ (k0 = 3 /\ k1 = 3 /\ (p.u > 2 \/ p.v > 2))
                       \/ (k0 % 2 = 0 /\ k1 % 2 = 0)
    IN  SupportedFilters(p, k0, k1) /\ ~workarounds

IsDirectSupported(p) ==
    LET k0 == p.w[3]
        k1 == p.w[4]
        workarounds == \/ (k0 = 3 /\ k1 = 3 /\ (p.u > 2 \/ p.v > 2))
                       \/ (k0 = 1 /\ k1 = 1 /\ (p.pad_h > 0 \/ p.pad_w > 0))
                       \/ (k0 % 2 = 0 /\ k1 % 2 = 0)
    IN  SupportedFilters(p, k0, k1) /\ ~workarounds

(***************************************************************************)
(* Workspace planner (convolution.cpp).                                    *)
(***************************************************************************)
GemmWorkspace(p, wLen, oLen) ==
    wLen[2] * wLen[3] * wLen[4] * oLen[3] * oLen[4] * GetTypeSize(p.type)

Is1x1Stride1Pad0(p, wLen) ==
    wLen[3] = 1 /\ wLen[4] = 1 /\ p.u = 1 /\ p.v = 1 /\ p.pad_h = 0 /\ p.pad_w = 0

ForwardGetWorkSpaceSizeGEMM(p, wLen, yLen) ==
    LET workspace_size == GemmWorkspace(p, wLen, yLen)
    IN  IF Is1x1Stride1Pad0(p, wLen) THEN 0
        ELSE IF workspace_size > OneGiB /\ device = "gfx803" THEN 0
        ELSE workspace_size

BackwardDataGetWorkSpaceSizeGEMM(p, wLen, dyLen) ==
    LET gemm_size == GemmWorkspace(p, wLen, dyLen)
    IN  IF Is1x1Stride1Pad0(p, wLen) THEN 0
        ELSE IF device = "gfx803" /\ gemm_size > OneGiB THEN 0
        ELSE gemm_size

BackwardWeightsGetWorkSpaceSizeGEMM(p, dyLen, dwLen) ==
    LET gemm_size == GemmWorkspace(p, dwLen, dyLen)
    IN  IF device = "gfx803" /\ gemm_size > OneGiB THEN 0 ELSE gemm_size

ForwardGetWorkSpaceSizeGEMMTranspose(p, xLen, yLen) ==
    LET x_t_size == xLen[1] * xLen[2] * yLen[3] * yLen[4] * GetTypeSize(p.type)
        y_t_size == GetElementSize(yLen) * GetTypeSize(p.type)
    IN  x_t_size + y_t_size

BackwardDataGetWorkSpaceSizeGEMMTranspose(p, dyLen, dxLen) ==
    LET dx_t_size == dxLen[1] * dxLen[2] * dyLen[3] * dyLen[4] * GetTypeSize(p.type)
        dy_t_size == GetElementSize(dyLen) * GetTypeSize(p.type)
    IN  dx_t_size + dy_t_size

\* FindAllSolutions answers with the solver's workspace (p.direct_ws).
ForwardBackwardDataGetWorkSpaceSizeDirect(p) ==
    IF ~IsDirectSupported(p) \/ DirectDisabled THEN 0 ELSE p.direct_ws

BackwardWeightsGetWorkSpaceSizeDirect(p) == p.wrw_ws

ForwardGetWorkSpaceSizeFFT(p) == p.fft_ws

BackwardGetWorkSpaceSizeFFT(p) == p.fft_ws

\* The uncached bodies of the three top-level workspace queries.
ForwardWorkSpaceUncached(p) ==
    IF p.mode = "miopenTranspose" THEN BackwardDataGetWorkSpaceSizeGEMM(p, p.w, p.x)
    ELSE LET direct_workspace == ForwardBackwardDataGetWorkSpaceSizeDirect(p)
         IN  IF p.dilation_w > 1 \/ p.dilation_h > 1
             THEN Max(ForwardGetWorkSpaceSizeGEMM(p, p.w, p.y), direct_workspace)
             ELSE IF /\ p.w[3] = 1 /\ p.w[4] = 1 /\ p.pad_h = 0 /\ p.pad_w = 0
                     /\ p.dilation_h = 1 /\ p.dilation_w = 1
                     /\ \/ (p.x[3] <= 14 /\ p.x[4] <= 14 /\ p.u = 1 /\ p.v = 1)
                        \/ (p.u = 2 /\ p.v = 2)
             THEN Max(ForwardGetWorkSpaceSizeGEMMTranspose(p, p.x, p.y), direct_workspace)
             ELSE IF IsWinograd3x3Supported(p, 1, p.w, p.x) THEN 0
             ELSE Max(Max(ForwardGetWorkSpaceSizeFFT(p),
                          ForwardGetWorkSpaceSizeGEMM(p, p.w, p.y)), direct_workspace)

BackwardDataWorkSpaceUncached(p) ==
    IF p.mode = "miopenTranspose" THEN ForwardGetWorkSpaceSizeGEMM(p, p.w, p.x)
    ELSE LET direct_workspace == ForwardBackwardDataGetWorkSpaceSizeDirect(p)
         IN  IF p.dilation_w > 1 \/ p.dilation_h > 1
             THEN Max(BackwardDataGetWorkSpaceSizeGEMM(p, p.w, p.y), direct_workspace)
             ELSE IF /\ p.w[3] = 1 /\ p.w[4] = 1 /\ p.pad_h = 0 /\ p.pad_w = 0
                     /\ p.u = 2 /\ p.v = 2 /\ p.dilation_w = 1 /\ p.dilation_h = 1
             THEN Max(BackwardDataGetWorkSpaceSizeGEMMTranspose(p, p.y, p.x),
                      direct_workspace)
             ELSE IF IsWinograd3x3Supported(p, 0, p.w, p.y) THEN 0
             ELSE Max(Max(BackwardGetWorkSpaceSizeFFT(p),
                          BackwardDataGetWorkSpaceSizeGEMM(p, p.w, p.y)), direct_workspace)

BackwardWeightsWorkSpaceUncached(p) ==
    IF p.mode = "miopenTranspose" THEN BackwardWeightsGetWorkSpaceSizeGEMM(p, p.x, p.w)
    ELSE Max(BackwardWeightsGetWorkSpaceSizeDirect(p),
             BackwardWeightsGetWorkSpaceSizeGEMM(p, p.y, p.w))

\* operator[] assignment: an existing entry is overwritten.
MapAssign(map, k, v) == [x \in DOMAIN map \cup {k} |-> IF x = k THEN v ELSE map[x]]

\* std::unordered_map::insert: an existing entry is kept.
MapInsert(map, k, v) == IF k \in DOMAIN map THEN map ELSE map @@ (k :> v)

EmptyMap == <<>>

NoCall == [op |-> "none"]

NoExec == [path |-> "none", recorded |-> FALSE]

(***************************************************************************)
(* Initial state: a freshly created handle, nothing cached, profiling off. *)
(***************************************************************************)
FreshHandle ==
    /\ device \in Devices
    /\ fwd_size_map = EmptyMap
    /\ bwdData_size_map = EmptyMap
    /\ bwdWeights_size_map = EmptyMap
    /\ fwd_map = EmptyMap
    /\ bwdData_map = EmptyMap
    /\ bwdWeights_map = EmptyMap
    /\ enable_profiling = FALSE
    /\ kernel_time = 0
    /\ kernels = {}
    /\ pc = "idle"
    /\ perf_db = <<>>
    /\ launched = <<>>
    /\ returnedAlgoCount = 0
    /\ perfResults = <<>>
    /\ status = "none"
    /\ exec = NoExec
    /\ ncalls = 0
    /\ winners = EmptyMap

Init == FreshHandle /\ call = NoCall /\ wsResult = 0 /\ layer \in Layers

\* The caller works on a layer whose im2col buffer exceeds 1 GiB.
InitBig == FreshHandle /\ call = NoCall /\ wsResult = 0 /\ layer \in BigLayers

\* The caller works on a padded 1x1 layer.
InitPadded == FreshHandle /\ call = NoCall /\ wsResult = 0 /\ layer \in PaddedLayers

CanCall == pc = "idle" /\ ncalls < MaxCalls

\* A call that is no search and no workspace query leaves no such results.
NoOutputs ==
    /\ perf_db' = <<>>
    /\ returnedAlgoCount' = 0
    /\ perfResults' = <<>>
    /\ wsResult' = 0
    /\ exec' = NoExec

\* The caller switches profiling on or off between calls (Handle::EnableProfiling).
EnableProfiling ==
    /\ pc = "idle"
    /\ enable_profiling' = ~enable_profiling
    /\ call' = [op |-> "EnableProfiling"]
    /\ NoOutputs
    /\ launched' = <<>>
    /\ status' = "ok"
    /\ UNCHANGED <<device, caches, kernel_time, kernels, pc, ncalls, layer, winners>>

(***************************************************************************)
(* Top-level workspace queries (convolution.cpp).                          *)
(***************************************************************************)
WorkSpaceFrame ==
    /\ launched' = <<>>
    /\ status' = "ok"
    /\ exec' = NoExec
    /\ perf_db' = <<>>
    /\ returnedAlgoCount' = 0
    /\ perfResults' = <<>>
    /\ ncalls' = ncalls + 1
    /\ UNCHANGED <<device, fwd_map, bwdData_map, bwdWeights_map, enable_profiling,
                   kernel_time, kernels, pc, layer, winners>>

\* find_params: setConvDescr is not called, the key holds the default parameters.
ForwardGetWorkSpaceSize(p) ==
    /\ CanCall
    /\ LET find_config == mloBuildConf_Key(1, p, DefaultConvDescr)
       IN  IF find_config \in DOMAIN fwd_size_map
           THEN /\ wsResult' = fwd_size_map[find_config]
                /\ UNCHANGED fwd_size_map
           ELSE /\ wsResult' = ForwardWorkSpaceUncached(p)
                /\ fwd_size_map' = MapInsert(fwd_size_map, find_config,
                                             ForwardWorkSpaceUncached(p))
    /\ call' = [op |-> "ForwardGetWorkSpaceSize", p |-> p]
    /\ UNCHANGED <<bwdData_size_map, bwdWeights_size_map>>
    /\ WorkSpaceFrame

BackwardDataGetWorkSpaceSize(p) ==
    /\ CanCall
    /\ LET find_config == mloBuildConf_Key(0, p, ConvDescrOf(p))
       IN  IF find_config \in DOMAIN bwdData_size_map
           THEN /\ wsResult' = bwdData_size_map[find_config]
                /\ UNCHANGED bwdData_size_map
           ELSE /\ wsResult' = BackwardDataWorkSpaceUncached(p)
                /\ bwdData_size_map' = MapInsert(bwdData_size_map, find_config,
                                                 BackwardDataWorkSpaceUncached(p))
    /\ call' = [op |-> "BackwardDataGetWorkSpaceSize", p |-> p]
    /\ UNCHANGED <<fwd_size_map, bwdWeights_size_map>>
    /\ WorkSpaceFrame

\* find_params: setConvDescr is not called here either.
ConvolutionBackwardWeightsGetWorkSpaceSize(p) ==
    /\ CanCall
    /\ LET find_config == mloBuildConf_Key(0, p, DefaultConvDescr)
       IN  IF find_config \in DOMAIN bwdWeights_size_map
           THEN /\ wsResult' = bwdWeights_size_map[find_config]
                /\ UNCHANGED bwdWeights_size_map
           ELSE /\ wsResult' = BackwardWeightsWorkSpaceUncached(p)
                /\ bwdWeights_size_map' = MapInsert(bwdWeights_size_map, find_config,
                                                    BackwardWeightsWorkSpaceUncached(p))
    /\ call' = [op |-> "ConvolutionBackwardWeightsGetWorkSpaceSize", p |-> p]
    /\ UNCHANGED <<fwd_size_map, bwdData_size_map>>
    /\ WorkSpaceFrame

(***************************************************************************)
(* Search engine (ocl/convolutionocl.cpp).                                 *)
(***************************************************************************)
PerfField(name, time, workspace) == [name |-> name, time |-> time, workspace |-> workspace]

\* Strategy name -> enum value (miopenConvFwdAlgorithm_t and friends).
FwdAlgoResolver(name) ==
    CASE name = "miopenConvolutionFwdAlgoGEMM" -> 0
      [] name = "miopenConvolutionFwdAlgoDirect" -> 1
      [] name = "miopenConvolutionFwdAlgoFFT" -> 2
      [] name = "miopenConvolutionFwdAlgoWinograd" -> 3

BwdDataAlgoResolver(name) ==
    CASE name = "miopenConvolutionBwdDataAlgoGEMM" -> 0
      [] name = "miopenConvolutionBwdDataAlgoDirect" -> 1
      [] name = "miopenConvolutionBwdDataAlgoFFT" -> 2
      [] name = "miopenConvolutionBwdDataAlgoWinograd" -> 3
      [] name = "miopenTransposeBwdDataAlgoGEMM" -> 4

BwdWeightsAlgoResolver(name) ==
    CASE name = "miopenConvolutionBwdWeightsAlgoGEMM" -> 0
      [] name = "miopenConvolutionBwdWeightsAlgoDirect" -> 1

\* GEMM geometries: the algorithm name a geometry registers under, and its
\* configuration key (one per Create function and problem).
GemmAlgorithmName(create) ==
    CASE create \in {"CreateGemmGeometryConvFwd", "CreateGemmGeometryConvFwdCNHW"}
             -> "miopenConvolutionFwdAlgoGEMM"
      [] create \in {"CreateGemmGeometryConvBwdData", "CreateGemmGeometryConvBwdDataCNHW"}
             -> "miopenConvolutionBwdDataAlgoGEMM"
      [] create = "CreateGemmGeometryTranBwdData" -> "miopenTransposeBwdDataAlgoGEMM"
      [] create = "CreateGemmGeometryConvBwdWeights" -> "miopenConvolutionBwdWeightsAlgoGEMM"

GemmConfig(create, a, b, c) == [geometry |-> create, a |-> a, b |-> b, c |-> c]

\* GemmGeometry::FindSolution registers the geometry under its own name.
GemmEntry(create, a, b, c) == <<GemmAlgorithmName(create), GemmConfig(create, a, b, c)>>

Unwritten == [algo |-> -1, time |-> -1, memory |-> -1]

\* A test of the size alone, whatever the pointer.
WorkSpaceOkSizeOnly(required) == call.workSpaceSize >= required

WorkSpaceOk(required) == call.workSpace /\ call.workSpaceSize >= required

\* Workspace buffers a caller may pass: none, or a buffer of one of the sizes
\* the planner reports for the problem.
WorkSpaceSizes(p) ==
    IF layer.dir = "fwd"
    THEN {ForwardGetWorkSpaceSizeGEMM(p, p.w, p.y),
          ForwardGetWorkSpaceSizeGEMMTranspose(p, p.x, p.y),
          BackwardDataGetWorkSpaceSizeGEMM(p, p.w, p.x), ForwardGetWorkSpaceSizeFFT(p)}
    ELSE IF layer.dir = "bwdData"
    THEN {BackwardDataGetWorkSpaceSizeGEMM(p, p.w, p.y),
          BackwardDataGetWorkSpaceSizeGEMMTranspose(p, p.y, p.x),
          ForwardGetWorkSpaceSizeGEMM(p, p.w, p.x), BackwardGetWorkSpaceSizeFFT(p)}
    ELSE {BackwardWeightsGetWorkSpaceSizeGEMM(p, p.y, p.w),
          BackwardWeightsGetWorkSpaceSizeGEMM(p, p.x, p.w),
          BackwardWeightsGetWorkSpaceSizeDirect(p)}

WorkSpaces(p) ==
    {[ptr |-> FALSE, size |-> 0]} \cup {[ptr |-> TRUE, size |-> n] : n \in WorkSpaceSizes(p)}

NullArgs == {"none", "buffer", "returnedAlgoCount", "perfResults"}

Requests == 0..MaxRequest

\* Arguments of a search call: valid ones, and calls with one invalid argument.
FindArgs(p) ==
    {a \in [req : Requests, ws : WorkSpaces(p), nullArg : NullArgs] :
        (a.nullArg # "none" \/ a.req < 1) =>
            (a.ws.ptr = FALSE /\ (a.nullArg = "none" \/ a.req = 1))}

FreshResults(n) == [i \in 1..n |-> Unwritten]

SearchCall(op, p, a, find_config, hit) ==
    [op |-> op, p |-> p, requestAlgoCount |-> a.req, workSpace |-> a.ws.ptr,
     workSpaceSize |-> a.ws.size, nullArg |-> a.nullArg,
     find_config |-> find_config, hit |-> hit, registered |-> {}, skipped |-> {},
     prev_state |-> enable_profiling, entry_caches |-> caches]

\* A validation that fails only after profiling was switched on.
SearchBadParmLate(op, p, a, find_config) ==
    /\ call' = SearchCall(op, p, a, find_config, FALSE)
    /\ status' = "miopenStatusBadParm"
    /\ returnedAlgoCount' = -1
    /\ perfResults' = FreshResults(a.req)
    /\ launched' = <<>>
    /\ perf_db' = <<>>
    /\ exec' = NoExec
    /\ ncalls' = ncalls + 1
    /\ wsResult' = 0
    /\ enable_profiling' = TRUE
    /\ UNCHANGED <<device, caches, kernel_time, kernels, pc, layer, winners>>

\* A destructor that resets the time and leaves profiling enabled.
DtorWithoutRestore ==
    /\ enable_profiling' = TRUE
    /\ kernel_time' = 0

\* AutoEnableProfiling::~AutoEnableProfiling
AutoEnableProfilingDtor ==
    /\ enable_profiling' = call'.prev_state
    /\ kernel_time' = 0

\* Validation failure: MIOPEN_THROW(miopenStatusBadParm) before anything else.
SearchBadParm(op, p, a, find_config) ==
    /\ call' = SearchCall(op, p, a, find_config, FALSE)
    /\ status' = "miopenStatusBadParm"
    /\ returnedAlgoCount' = -1
    /\ perfResults' = FreshResults(a.req)
    /\ launched' = <<>>
    /\ perf_db' = <<>>
    /\ exec' = NoExec
    /\ ncalls' = ncalls + 1
    /\ wsResult' = 0
    /\ UNCHANGED <<device, caches, enable_profiling, kernel_time, kernels, pc, layer, winners>>

\* Cache hit with requestAlgoCount == 1: the cached id is written and the call returns.
SearchCachedReturn(op, p, a, find_config, algo) ==
    /\ call' = SearchCall(op, p, a, find_config, TRUE)
    /\ status' = "ok"
    /\ returnedAlgoCount' = 1
    /\ perfResults' = <<[Unwritten EXCEPT !.algo = algo]>>
    /\ launched' = <<>>
    /\ perf_db' = <<>>
    /\ exec' = NoExec
    /\ ncalls' = ncalls + 1
    /\ wsResult' = 0
    /\ winners' = MapInsert(winners, <<op, p>>, algo)
    /\ UNCHANGED <<device, caches, kernels, pc, layer>>

\* Miss, or more than one result requested: benchmarking starts with profiling on.
SearchStart(op, p, a, find_config, hit, first) ==
    /\ call' = SearchCall(op, p, a, find_config, hit)
    /\ status' = "running"
    /\ returnedAlgoCount' = -1
    /\ perfResults' = FreshResults(a.req)
    /\ launched' = <<>>
    /\ perf_db' = <<>>
    /\ exec' = NoExec
    /\ ncalls' = ncalls + 1
    /\ enable_profiling' = TRUE
    /\ pc' = first
    /\ wsResult' = 0
    /\ UNCHANGED <<device, caches, kernel_time, kernels, layer, winners>>

FindConvFwdAlgorithm(p, a) ==
    /\ CanCall
    /\ LET find_config == mloBuildConf_Key(1, p, ConvDescrOf(p))
           hit == find_config \in DOMAIN fwd_map
       IN  IF a.nullArg # "none" \/ a.req < 1
           THEN SearchBadParm("FindConvFwdAlgorithm", p, a, find_config)
           ELSE IF hit /\ a.req = 1
           THEN \* AutoEnableProfiling is already constructed: its destructor runs
                /\ SearchCachedReturn("FindConvFwdAlgorithm", p, a, find_config,
                                      fwd_map[find_config])
                /\ AutoEnableProfilingDtor
           ELSE SearchStart("FindConvFwdAlgorithm", p, a, find_config, hit,
                            "fwd_gemm")

FindConvBwdDataAlgorithm(p, a) ==
    /\ CanCall
    /\ LET find_config == mloBuildConf_Key(0, p, ConvDescrOf(p))
           hit == find_config \in DOMAIN bwdData_map
       IN  IF a.nullArg # "none" \/ a.req < 1
           THEN SearchBadParm("FindConvBwdDataAlgorithm", p, a, find_config)
           ELSE IF hit /\ a.req = 1
           THEN /\ SearchCachedReturn("FindConvBwdDataAlgorithm", p, a, find_config,
                                      bwdData_map[find_config])
                /\ UNCHANGED <<enable_profiling, kernel_time>>
           ELSE SearchStart("FindConvBwdDataAlgorithm", p, a, find_config, hit,
                            IF p.mode = "miopenConvolution" /\ p.dilation_h = 1
                               /\ p.dilation_w = 1
                            THEN "bwdData_winograd" ELSE "bwdData_gemm")

FindConvBwdWeightsAlgorithm(p, a) ==
    /\ CanCall
    /\ LET find_config == mloBuildConf_Key(0, p, ConvDescrOf(p))
           hit == find_config \in DOMAIN bwdWeights_map
       IN  IF a.nullArg # "none" \/ a.req < 1
           THEN SearchBadParm("FindConvBwdWeightsAlgorithm", p, a, find_config)
           ELSE IF hit /\ a.req = 1
           THEN /\ SearchCachedReturn("FindConvBwdWeightsAlgorithm", p, a,
                                      find_config, bwdWeights_map[find_config])
                /\ UNCHANGED <<enable_profiling, kernel_time>>
           ELSE SearchStart("FindConvBwdWeightsAlgorithm", p, a, find_config, hit,
                            "bwdWeights_gemm")

\* One benchmarking step: kernels registered, kernels launched (the last one
\* leaves its duration in the handle), at most one candidate appended.
Stage(next, cands, regs, names, last) ==
    /\ pc' = next
    /\ perf_db' = perf_db \o cands
    /\ kernels' = kernels \cup regs
    /\ launched' = launched \o names
    /\ kernel_time' = IF names = <<>> THEN kernel_time ELSE last
    /\ call' = [call EXCEPT !.registered =
                    @ \cup {<<cands[i].name, regs>> : i \in 1..Len(cands)}]
    /\ UNCHANGED <<device, caches, enable_profiling, returnedAlgoCount, perfResults,
                   status, wsResult, exec, ncalls, layer, winners>>

\* A strategy that applies to the problem is passed over because the caller's
\* workspace is null or smaller than the strategy requires.
Skip(next, strategy) ==
    /\ pc' = next
    /\ call' = [call EXCEPT !.skipped = @ \cup {strategy}]
    /\ UNCHANGED <<device, caches, enable_profiling, kernel_time, kernels, perf_db, launched,
                   returnedAlgoCount, perfResults, status, wsResult, exec, ncalls, layer,
                   winners>>

\* An exception leaves the search: the stack unwinds through AutoEnableProfiling.
SearchThrow(st) ==
    /\ pc' = "idle"
    /\ status' = st
    /\ UNCHANGED call
    /\ AutoEnableProfilingDtor
    /\ UNCHANGED <<device, caches, kernels, perf_db, launched, returnedAlgoCount,
                   perfResults, wsResult, exec, ncalls, layer, winners>>

IsFloat(p) == p.type = "miopenFloat"

Is1x1(p) == p.w[3] = 1 /\ p.w[4] = 1

UnitStride(p) == p.u = 1 /\ p.v = 1

NoDilation(p) == p.dilation_h = 1 /\ p.dilation_w = 1

NoPad(p) == p.pad_h = 0 /\ p.pad_w = 0

\* A guard that takes the transpose path for stride 2 only.
FwdTransposePathStride2Only(p) ==
    Is1x1(p) /\ NoPad(p) /\ NoDilation(p) /\ p.u = 2 /\ p.v = 2

\* Guard of the forward transpose (CNHW) GEMM path.
FwdTransposePath(p) ==
    /\ Is1x1(p) /\ NoPad(p) /\ NoDilation(p)
    /\ \/ (p.x[3] <= 14 /\ p.x[4] <= 14 /\ UnitStride(p))
       \/ (p.u = 2 /\ p.v = 2)

\* Guard of the workspace-free 1x1 GEMM path (forward and backward data).
PureGemmPath(p) == Is1x1(p) /\ NoPad(p) /\ UnitStride(p) /\ NoDilation(p)

\* Guard of the backward-data transpose (CNHW) GEMM path, workspace apart.
BwdDataTransposePath(p) ==
    Is1x1(p) /\ NoPad(p) /\ p.u = 2 /\ p.v = 2 /\ NoDilation(p)

FwdGemm ==
    /\ pc = "fwd_gemm"
    /\ LET p == call.p
           in_n == p.x[1]
           next == IF p.mode = "miopenConvolution" /\ NoDilation(p)
                   THEN "fwd_winograd" ELSE "finish"
       IN  IF ~(UseMIOpenGEMM /\ IsFloat(p)) THEN Stage(next, <<>>, {}, <<>>, 0)
           ELSE IF p.mode = "miopenTranspose"
           THEN LET workspace_req == BackwardDataGetWorkSpaceSizeGEMM(p, p.w, p.x)
                    gg == GemmEntry("CreateGemmGeometryConvBwdData", p.x, p.w, p.y)
                IN  IF Is1x1(p) /\ UnitStride(p)
                    THEN \E ok \in BOOLEAN, t \in Times :
                           IF ~ok THEN SearchThrow("Exception")
                           ELSE Stage(next,
                                      <<PerfField("miopenConvolutionFwdAlgoGEMM", in_n * t, 0)>>,
                                      {gg}, <<"RunGemm">>, t)
                    ELSE IF WorkSpaceOk(workspace_req)
                    THEN \E ok \in BOOLEAN, t1 \in Times, t2 \in Times :
                           IF ~ok THEN SearchThrow("Exception")
                           ELSE Stage(next,
                                      <<PerfField("miopenConvolutionFwdAlgoGEMM",
                                                  in_n * t1 + in_n * t2, workspace_req)>>,
                                      {gg}, <<"RunGemm", "Col2ImGPU">>, t2)
                    ELSE Skip(next, "GEMM")
           ELSE IF FwdTransposePath(p)
           THEN LET workspace_req == ForwardGetWorkSpaceSizeGEMMTranspose(p, p.x, p.y)
                    gg == GemmEntry("CreateGemmGeometryConvFwdCNHW", p.x, p.w, p.y)
                IN  IF WorkSpaceOk(workspace_req)
                    THEN \E ok \in BOOLEAN, t1 \in Times, t2 \in Times, t3 \in Times :
                           IF ~ok
                           THEN /\ SearchThrow("Exception")
                           ELSE Stage(next,
                                      <<PerfField("miopenConvolutionFwdAlgoGEMM",
                                                  t1 + t2 + t3, workspace_req)>>,
                                      {gg},
                                      <<"transpose_NCHW2CNHW", "RunGemm",
                                        "transpose_CNHW2NCHW">>, t3)
                    ELSE Skip(next, "GEMM")
           ELSE IF PureGemmPath(p)
           THEN \E ok \in BOOLEAN, t \in Times :
                  IF ~ok THEN SearchThrow("Exception")
                  ELSE Stage(next,
                             <<PerfField("miopenConvolutionFwdAlgoGEMM", in_n * t, 0)>>,
                             {GemmEntry("CreateGemmGeometryConvFwd", p.x, p.w, p.y)},
                             <<"RunGemm">>, t)
           ELSE IF WorkSpaceOk(ForwardGetWorkSpaceSizeGEMM(p, p.w, p.y))
           THEN \E ok \in BOOLEAN, t1 \in Times, t2 \in Times :
                  IF ~ok THEN SearchThrow("Exception")
                  ELSE Stage(next,
                             <<PerfField("miopenConvolutionFwdAlgoGEMM", in_n * (t1 + t2),
                                         ForwardGetWorkSpaceSizeGEMM(p, p.w, p.y))>>,
                             {GemmEntry("CreateGemmGeometryConvFwd", p.x, p.w, p.y)},
                             <<"Im2ColGPU", "RunGemm">>, t2)
           ELSE Skip(next, "GEMM")

\* FindWinogradKernel: mloConstruct finds a Winograd solution only where the
\* 3x3 Winograd kernel applies; every miopen::Exception is caught (-1).
FindWinogradKernel(p, direction, ok) ==
    ok /\ IsWinograd3x3Supported(p, direction, p.w, IF direction = 1 THEN p.x ELSE p.y)

WinogradAlgorithm(direction) ==
    IF direction = 1 THEN "miopenConvolutionFwdAlgoWinograd"
    ELSE "miopenConvolutionBwdDataAlgoWinograd"

DirectAlgorithm(direction) ==
    IF direction = 1 THEN "miopenConvolutionFwdAlgoDirect"
    ELSE "miopenConvolutionBwdDataAlgoDirect"

WinogradStage(direction, next) ==
    LET p == call.p
    IN  \/ \E ok \in BOOLEAN : /\ ~FindWinogradKernel(p, direction, ok)
                                  /\ Stage(next, <<>>, {}, <<>>, 0)
        \/ \E t \in Times :
             /\ FindWinogradKernel(p, direction, TRUE)
             /\ Stage(next, <<PerfField(WinogradAlgorithm(direction), t, 0)>>,
                      {<<WinogradAlgorithm(direction),
                         mloBuildConf_Key(direction, p, ConvDescrOf(p))>>},
                      <<"kernel_wino">>, t)

\* FindDirectKernel: -1 when the predicate fails, when the fast Winograd kernel
\* is preferred (fastWino), or when construction / compilation throws (~ok).
FindDirectKernel(p, direction, fastWino, ok) ==
    /\ ~(~IsDirectSupported(p) \/ DirectDisabled)
    /\ ~(IsWinograd3x3Supported(p, direction, p.w, IF direction = 1 THEN p.x ELSE p.y)
         /\ fastWino)
    /\ ok

DirectKernelEntries(p, direction) ==
    LET network_config == mloBuildConf_Key(direction, p, ConvDescrOf(p))
    IN  IF Len(p.direct_kernels) = 1
        THEN {<<DirectAlgorithm(direction), network_config>>}
        ELSE {<<DirectAlgorithm(direction), network_config>>,
              <<DirectAlgorithm(direction) \o "_pass2", <<network_config, "x1">>>>}

DirectStage(direction, next) ==
    LET p == call.p
        n == Len(p.direct_kernels)
    IN  \/ \E fastWino \in BOOLEAN, ok \in BOOLEAN :
             /\ ~FindDirectKernel(p, direction, fastWino, ok)
             /\ Stage(next, <<>>, {}, <<>>, 0)
        \/ \E fastWino \in BOOLEAN, ts \in [1..n -> Times] :
             /\ FindDirectKernel(p, direction, fastWino, TRUE)
             /\ Stage(next,
                      <<PerfField(DirectAlgorithm(direction),
                                  IF n = 1 THEN ts[1] ELSE ts[1] + ts[2], 0)>>,
                      DirectKernelEntries(p, direction), p.direct_kernels, ts[n])

\* FindFwdFFTKernel / FindBwdFFTKernel answer 0 when the FFT strategy covers
\* the problem (it then has a workspace requirement).
FFTStage(name, workspace_fft, next) ==
    IF workspace_fft > 0
    THEN IF WorkSpaceOk(workspace_fft)
         THEN \E t \in Times :
                Stage(next, <<PerfField(name, t, workspace_fft)>>, {},
                      <<"ExecuteFFTKernel">>, t)
         ELSE Skip(next, "FFT")
    ELSE Stage(next, <<>>, {}, <<>>, 0)

FwdWinograd == pc = "fwd_winograd" /\ WinogradStage(1, "fwd_direct")

FwdDirect == pc = "fwd_direct" /\ DirectStage(1, "fwd_fft")

FwdFFT ==
    /\ pc = "fwd_fft"
    /\ FFTStage("miopenConvolutionFwdAlgoFFT", ForwardGetWorkSpaceSizeFFT(call.p), "finish")

BwdDataWinograd == pc = "bwdData_winograd" /\ WinogradStage(0, "bwdData_direct")

BwdDataDirect == pc = "bwdData_direct" /\ DirectStage(0, "bwdData_fft")

BwdDataFFT ==
    /\ pc = "bwdData_fft"
    /\ FFTStage("miopenConvolutionBwdDataAlgoFFT", BackwardGetWorkSpaceSizeFFT(call.p),
                "bwdData_gemm")

BwdDataGemm ==
    /\ pc = "bwdData_gemm"
    /\ LET p == call.p
           in_n == p.x[1]
       IN  IF ~(UseMIOpenGEMM /\ IsFloat(p)) THEN Stage("finish", <<>>, {}, <<>>, 0)
           ELSE IF p.mode = "miopenTranspose"
           THEN LET workspace_req == ForwardGetWorkSpaceSizeGEMM(p, p.w, p.x)
                    gg == GemmEntry("CreateGemmGeometryTranBwdData", p.y, p.w, p.x)
                IN  IF Is1x1(p) /\ UnitStride(p)
                    THEN \E ok \in BOOLEAN, t \in Times :
                           IF ~ok THEN SearchThrow("Exception")
                           ELSE Stage("finish",
                                      <<PerfField("miopenTransposeBwdDataAlgoGEMM",
                                                  in_n * t, 0)>>,
                                      {gg}, <<"RunGemm">>, t)
                    ELSE IF WorkSpaceOk(workspace_req)
                    THEN \E ok \in BOOLEAN, t1 \in Times, t2 \in Times :
                           IF ~ok THEN SearchThrow("Exception")
                           ELSE Stage("finish",
                                      <<PerfField("miopenTransposeBwdDataAlgoGEMM",
                                                  in_n * (t1 + t2), workspace_req)>>,
                                      {gg}, <<"Im2ColGPU", "RunGemm">>, t2)
                    ELSE Skip("finish", "GEMM")
           ELSE IF /\ BwdDataTransposePath(p)
                   /\ WorkSpaceOk(BackwardDataGetWorkSpaceSizeGEMMTranspose(p, p.y, p.x))
           THEN \E ok \in BOOLEAN, t0 \in Times, t1 \in Times, t2 \in Times, t3 \in Times :
                  IF ~ok
                  THEN SearchThrow("Exception")
                  ELSE Stage("finish",
                             <<PerfField("miopenConvolutionBwdDataAlgoGEMM",
                                         t0 + t1 + t2 + t3,
                                         BackwardDataGetWorkSpaceSizeGEMMTranspose(p, p.y, p.x))>>,
                             {GemmEntry("CreateGemmGeometryConvBwdDataCNHW", p.y, p.w, p.x)},
                             <<"SetTensor", "transpose_NCHW2CNHW", "RunGemm",
                               "transpose_CNHW2NCHW">>, t3)
           ELSE IF PureGemmPath(p)
           THEN \E ok \in BOOLEAN, t \in Times :
                  IF ~ok THEN SearchThrow("Exception")
                  ELSE Stage("finish",
                             <<PerfField("miopenConvolutionBwdDataAlgoGEMM", in_n * t, 0)>>,
                             {GemmEntry("CreateGemmGeometryConvBwdData", p.y, p.w, p.x)},
                             <<"RunGemm">>, t)
           ELSE IF WorkSpaceOk(BackwardDataGetWorkSpaceSizeGEMM(p, p.w, p.y))
           THEN \E ok \in BOOLEAN, t1 \in Times, t2 \in Times :
                  IF ~ok THEN SearchThrow("Exception")
                  ELSE Stage("finish",
                             <<PerfField("miopenConvolutionBwdDataAlgoGEMM",
                                         in_n * t1 + in_n * t2,
                                         BackwardDataGetWorkSpaceSizeGEMM(p, p.w, p.y))>>,
                             {GemmEntry("CreateGemmGeometryConvBwdData", p.y, p.w, p.x)},
                             <<"RunGemm", "Col2ImGPU">>, t2)
           ELSE Skip("finish", "GEMM")

BwdWeightsGemm ==
    /\ pc = "bwdWeights_gemm"
    /\ LET p == call.p
           in_n == p.x[1]
           transpose == p.mode = "miopenTranspose"
           next == IF ~transpose /\ NoDilation(p) THEN "bwdWeights_direct" ELSE "finish"
           gg == IF transpose
                 THEN GemmEntry("CreateGemmGeometryConvBwdWeights", p.x, p.y, p.w)
                 ELSE GemmEntry("CreateGemmGeometryConvBwdWeights", p.y, p.x, p.w)
           workspace_req == IF transpose
                            THEN BackwardWeightsGetWorkSpaceSizeGEMM(p, p.x, p.w)
                            ELSE BackwardWeightsGetWorkSpaceSizeGEMM(p, p.y, p.w)
       IN  IF ~(UseMIOpenGEMM /\ IsFloat(p)) THEN Stage(next, <<>>, {}, <<>>, 0)
           ELSE IF Is1x1(p) /\ UnitStride(p)
           THEN \E ok \in BOOLEAN, t \in Times :
                  IF ~ok THEN SearchThrow("Exception")
                  ELSE Stage(next,
                             <<PerfField("miopenConvolutionBwdWeightsAlgoGEMM", in_n * t, 0)>>,
                             {gg}, <<"RunGemm">>, t)
           ELSE IF WorkSpaceOk(workspace_req)
           THEN \E ok \in BOOLEAN, t1 \in Times, t2 \in Times :
                  IF ~ok THEN SearchThrow("Exception")
                  ELSE Stage(next,
                             <<PerfField("miopenConvolutionBwdWeightsAlgoGEMM",
                                         in_n * (t1 + t2), workspace_req)>>,
                             {gg}, <<"Im2ColGPU", "RunGemm">>, t2)
           ELSE Skip(next, "GEMM")

\* Backward-weights direct: mloConstruct runs under try_ (constructs), the
\* AddKernel calls that compile the kernels do not (compiles).
BwdWeightsDirect ==
    /\ pc = "bwdWeights_direct"
    /\ LET p == call.p
           n == Len(p.wrw_kernels)
           entry == <<"miopenConvolutionBwdWeightsAlgoDirect_Main",
                      mloBuildConf_Key(0, p, ConvDescrOf(p))>>
           workspace_req == BackwardWeightsGetWorkSpaceSizeDirect(p)
       IN  IF ~(p.w[4] >= p.w[3] /\ ~DirectDisabled /\ IsBwdWeightsDirectSupported(p))
           THEN Stage("finish", <<>>, {}, <<>>, 0)
           ELSE \E constructs \in BOOLEAN, compiles \in BOOLEAN, t1 \in Times, t2 \in Times :
                  IF ~constructs THEN Stage("finish", <<>>, {}, <<>>, 0)
                  ELSE IF n = 1
                  THEN IF ~compiles THEN SearchThrow("Exception")
                       ELSE Stage("finish",
                                  <<PerfField("miopenConvolutionBwdWeightsAlgoDirect", t1, 0)>>,
                                  {entry}, p.wrw_kernels, t1)
                  ELSE IF WorkSpaceOk(workspace_req)
                  THEN IF ~compiles THEN SearchThrow("Exception")
                       ELSE Stage("finish",
                                  <<PerfField("miopenConvolutionBwdWeightsAlgoDirect",
                                              t1 + t2, workspace_req)>>,
                                  {entry}, p.wrw_kernels, t2)
                  ELSE Skip("finish", "Direct")

\* std::sort with PerfField::operator< (by time): any ordering of the
\* candidates that is non-decreasing in time.
PermutationsOf(n) == {f \in [1..n -> 1..n] : \A i, j \in 1..n : i # j => f[i] # f[j]}

\* The candidates left in any order.
AnyOrders(db) == {[i \in 1..Len(db) |-> db[f[i]]] : f \in PermutationsOf(Len(db))}

SortedOrders(db) ==
    {[i \in 1..Len(db) |-> db[f[i]]] : f \in
        {g \in PermutationsOf(Len(db)) :
            \A i, j \in 1..Len(db) : i < j => db[g[i]].time <= db[g[j]].time}}

Resolver(op, name) ==
    IF op = "FindConvFwdAlgorithm" THEN FwdAlgoResolver(name)
    ELSE IF op = "FindConvBwdDataAlgorithm" THEN BwdDataAlgoResolver(name)
    ELSE BwdWeightsAlgoResolver(name)

\* Sort, results, cache insert.
RankAndCache ==
    \E sorted \in SortedOrders(perf_db) :
        LET count == Min(call.requestAlgoCount, Len(sorted))
            best == Resolver(call.op, sorted[1].name)
        IN  /\ perf_db' = sorted
            /\ returnedAlgoCount' = count
            /\ perfResults' =
                  [i \in 1..Len(perfResults) |->
                      IF i <= count
                      THEN [algo |-> Resolver(call.op, sorted[i].name),
                            time |-> sorted[i].time,
                            memory |-> sorted[i].workspace]
                      ELSE perfResults[i]]
            /\ fwd_map' = IF call.op = "FindConvFwdAlgorithm"
                          THEN MapInsert(fwd_map, call.find_config, best)
                          ELSE fwd_map
            /\ bwdData_map' = IF call.op = "FindConvBwdDataAlgorithm"
                              THEN MapInsert(bwdData_map, call.find_config, best)
                              ELSE bwdData_map
            /\ bwdWeights_map' = IF call.op = "FindConvBwdWeightsAlgorithm"
                                 THEN MapInsert(bwdWeights_map, call.find_config, best)
                                 ELSE bwdWeights_map
            /\ pc' = "idle"
            /\ status' = "ok"
            /\ winners' = MapInsert(winners, <<call.op, call.p>>, best)
            /\ UNCHANGED call
            /\ AutoEnableProfilingDtor
            /\ UNCHANGED <<device, fwd_size_map, bwdData_size_map, bwdWeights_size_map,
                           kernels, launched, wsResult, exec, ncalls, layer>>

\* A tail that reports a count of 0 when there is no candidate.
FindFinishWritesCount ==
    /\ pc = "finish"
    /\ IF perf_db = <<>>
       THEN /\ returnedAlgoCount' = 0
            /\ pc' = "idle"
            /\ status' = "miopenStatusUnknownError"
            /\ UNCHANGED call
            /\ AutoEnableProfilingDtor
            /\ UNCHANGED <<device, caches, kernels, perf_db, launched, perfResults,
                           wsResult, exec, ncalls, layer, winners>>
       ELSE RankAndCache

\* Tail of the three search functions: empty check, then sort, results, cache insert.
FindFinish ==
    /\ pc = "finish"
    /\ IF perf_db = <<>>
       THEN SearchThrow("miopenStatusUnknownError")
       ELSE RankAndCache

(***************************************************************************)
(* Execution dispatcher (ocl/convolutionocl.cpp).                          *)
(***************************************************************************)
RECURSIVE SumOf(_)
SumOf(s) == IF s = <<>> THEN 0 ELSE Head(s) + SumOf(Tail(s))

\* The kernels a per-sample loop of n iterations launches.
RECURSIVE Repeat(_, _)
Repeat(n, s) == IF n = 0 THEN <<>> ELSE s \o Repeat(n - 1, s)

FwdAlgos == 0..3

BwdDataAlgos == 0..4

BwdWeightsAlgos == 0..1

\* What the validation of an execute call rejects with miopenStatusBadParm:
\* a null buffer, descriptors of differing rank, of differing element type,
\* of rank below 3, and a channel (or, for backward weights, batch) mismatch.
BadParmKinds == {"buffer", "rank", "type", "small_rank", "channels"}

\* Arguments of an execute call: an algorithm id and a workspace, or a call
\* with one invalid argument or an unsupported alpha / beta.
ExecArgs(p, algos) ==
    {a \in [algo : algos, ws : WorkSpaces(p), bad : {"none", "alpha"} \cup BadParmKinds] :
        a.bad # "none" => (a.ws.ptr = FALSE /\ a.algo = 0)}

\* What one execute call does once its arguments are validated:
\*   path       the branch taken
\*   pre        kernels launched before the workspace assertion and the lookup
\*   asserted   whether the branch asserts the workspace, and the size it requires
\*   lookups    the (algorithm name, configuration key) entries it looks up
\*   lookup1st  the lookup comes before ResetKernelTime and the assertion
\*   reset      ResetKernelTime is called whether or not profiling is enabled
\*   names      kernels launched after the lookup, in order
\*   count_pre  the durations of the pre kernels are part of the reported time
Plan(path, pre, asserted, required, lookups, lookup1st, reset, names, count_pre) ==
    [path |-> path, pre |-> pre, asserted |-> asserted, required |-> required,
     lookups |-> lookups, lookup1st |-> lookup1st, reset |-> reset, names |-> names,
     count_pre |-> count_pre]

Nothing == Plan("nothing", <<>>, FALSE, 0, {}, FALSE, FALSE, <<>>, FALSE)

NeedsTransform(p) == p.w[3] # 1 \/ p.w[4] # 1 \/ p.v # 1 \/ p.u # 1

DirectPlan(p, direction) ==
    LET network_config == mloBuildConf_Key(direction, p, ConvDescrOf(p))
        name == DirectAlgorithm(direction)
    IN  IF direction = 1 /\ Len(p.direct_kernels) = 2
        THEN Plan("direct_2pass", <<>>, FALSE, 0,
                  {<<name, network_config>>, <<name \o "_pass2", <<network_config, "x1">>>>},
                  TRUE, TRUE, p.direct_kernels, FALSE)
        ELSE Plan("direct", <<>>, FALSE, 0, {<<name, network_config>>}, TRUE, FALSE,
                  <<p.direct_kernels[1]>>, FALSE)

WinogradPlan(p, direction) ==
    Plan("winograd", <<>>, FALSE, 0,
         {<<WinogradAlgorithm(direction), mloBuildConf_Key(direction, p, ConvDescrOf(p))>>},
         TRUE, FALSE, <<"kernel_wino">>, FALSE)

FFTPlan(a, workspace_fft) ==
    IF a.ws.ptr /\ a.ws.size >= workspace_fft
    THEN Plan("fft", <<>>, FALSE, 0, {}, FALSE, FALSE, <<"ExecuteFFTKernel">>, FALSE)
    ELSE Nothing

ConvolutionForwardPlan(p, a) ==
    LET in_n == p.x[1]
        fwd == "miopenConvolutionFwdAlgoGEMM"
    IN  IF p.mode = "miopenConvolution"
        THEN CASE a.algo = 1 -> DirectPlan(p, 1)
               [] a.algo = 3 -> WinogradPlan(p, 1)
               [] a.algo = 0 ->
                    IF FwdTransposePath(p)
                    THEN Plan("gemm_transpose", <<>>, TRUE,
                              ForwardGetWorkSpaceSizeGEMMTranspose(p, p.x, p.y),
                              {<<fwd, GemmConfig("CreateGemmGeometryConvFwdCNHW",
                                                 p.x, p.w, p.y)>>},
                              FALSE, FALSE,
                              <<"transpose_NCHW2CNHW", "RunGemm", "transpose_CNHW2NCHW">>,
                              FALSE)
                    ELSE IF PureGemmPath(p)
                    THEN Plan("gemm_pure", <<>>, FALSE, 0,
                              {<<fwd, GemmConfig("CreateGemmGeometryConvFwd", p.x, p.w, p.y)>>},
                              FALSE, FALSE, Repeat(in_n, <<"RunGemm">>), FALSE)
                    ELSE Plan("gemm_im2col", <<>>, TRUE,
                              ForwardGetWorkSpaceSizeGEMM(p, p.w, p.y),
                              {<<fwd, GemmConfig("CreateGemmGeometryConvFwd", p.x, p.w, p.y)>>},
                              FALSE, FALSE,
                              IF NeedsTransform(p)
                              THEN Repeat(in_n, <<"Im2ColGPU", "RunGemm">>) ELSE <<>>,
                              FALSE)
               [] a.algo = 2 -> FFTPlan(a, ForwardGetWorkSpaceSizeFFT(p))
        ELSE Plan("transpose_mode", <<>>, NeedsTransform(p),
                  BackwardDataGetWorkSpaceSizeGEMM(p, p.w, p.x),
                  {<<"miopenConvolutionBwdDataAlgoGEMM",
                     GemmConfig("CreateGemmGeometryConvBwdData", p.x, p.w, p.y)>>},
                  FALSE, FALSE,
                  IF NeedsTransform(p) THEN Repeat(in_n, <<"RunGemm", "Col2ImGPU">>)
                  ELSE Repeat(in_n, <<"RunGemm">>),
                  FALSE)

ConvolutionBackwardDataPlan(p, a) ==
    LET in_n == p.x[1]
        bwd == "miopenConvolutionBwdDataAlgoGEMM"
    IN  IF p.mode = "miopenConvolution"
        THEN CASE a.algo = 1 -> DirectPlan(p, 0)
               [] a.algo = 3 -> WinogradPlan(p, 0)
               [] a.algo = 0 ->
                    IF BwdDataTransposePath(p)
                    THEN Plan("gemm_transpose", <<"SetTensor">>, TRUE,
                              BackwardDataGetWorkSpaceSizeGEMMTranspose(p, p.y, p.x),
                              {<<bwd, GemmConfig("CreateGemmGeometryConvBwdDataCNHW",
                                                 p.y, p.w, p.x)>>},
                              FALSE, FALSE,
                              <<"transpose_NCHW2CNHW", "RunGemm", "transpose_CNHW2NCHW">>,
                              TRUE)
                    ELSE IF PureGemmPath(p)
                    THEN Plan("gemm_pure", <<>>, FALSE, 0,
                              {<<bwd, GemmConfig("CreateGemmGeometryConvBwdData",
                                                 p.y, p.w, p.x)>>},
                              FALSE, FALSE, Repeat(in_n, <<"RunGemm">>), FALSE)
                    ELSE Plan("gemm_col2im", <<>>, TRUE,
                              BackwardDataGetWorkSpaceSizeGEMM(p, p.w, p.y),
                              {<<bwd, GemmConfig("CreateGemmGeometryConvBwdData",
                                                 p.y, p.w, p.x)>>},
                              FALSE, TRUE,
                              IF NeedsTransform(p)
                              THEN Repeat(in_n, <<"RunGemm", "Col2ImGPU">>) ELSE <<>>,
                              FALSE)
               [] a.algo = 2 -> FFTPlan(a, BackwardGetWorkSpaceSizeFFT(p))
               [] a.algo = 4 -> Nothing
        ELSE Plan("transpose_mode", <<>>, NeedsTransform(p),
                  ForwardGetWorkSpaceSizeGEMM(p, p.w, p.x),
                  {<<"miopenTransposeBwdDataAlgoGEMM",
                     GemmConfig("CreateGemmGeometryTranBwdData", p.y, p.w, p.x)>>},
                  FALSE, FALSE,
                  IF NeedsTransform(p) THEN Repeat(in_n, <<"Im2ColGPU", "RunGemm">>)
                  ELSE Repeat(in_n, <<"RunGemm">>),
                  FALSE)

ConvolutionBackwardWeightsPlan(p, a) ==
    LET in_n == p.x[1]
        wrw == "miopenConvolutionBwdWeightsAlgoGEMM"
        loop == IF NeedsTransform(p) THEN Repeat(in_n, <<"Im2ColGPU", "RunGemm">>)
                ELSE Repeat(in_n, <<"RunGemm">>)
    IN  IF p.mode = "miopenConvolution"
        THEN CASE a.algo = 0 ->
                    Plan("gemm", <<"SetTensor">>, NeedsTransform(p),
                         BackwardWeightsGetWorkSpaceSizeGEMM(p, p.y, p.w),
                         {<<wrw, GemmConfig("CreateGemmGeometryConvBwdWeights",
                                            p.y, p.x, p.w)>>},
                         FALSE, TRUE, loop, FALSE)
               [] a.algo = 1 ->
                    IF ~(p.w[4] >= p.w[3]) THEN Nothing
                    ELSE LET asm == p.wrw_kernels[1] \in {"gcnAsmConv3x3WrW",
                                                         "gcnAsmConv1x1WrW"}
                         IN  Plan("direct", <<>>, ~asm /\ Len(p.wrw_kernels) # 1,
                                  BackwardWeightsGetWorkSpaceSizeDirect(p),
                                  {<<"miopenConvolutionBwdWeightsAlgoDirect_Main",
                                     mloBuildConf_Key(0, p, ConvDescrOf(p))>>},
                                  TRUE, TRUE,
                                  IF asm THEN <<p.wrw_kernels[1]>> ELSE p.wrw_kernels,
                                  FALSE)
        ELSE Plan("transpose_mode", <<>>, NeedsTransform(p),
                  BackwardWeightsGetWorkSpaceSizeGEMM(p, p.x, p.w),
                  {<<wrw, GemmConfig("CreateGemmGeometryConvBwdWeights", p.x, p.y, p.w)>>},
                  FALSE, TRUE, loop, FALSE)

ExecFrame ==
    /\ perf_db' = <<>>
    /\ returnedAlgoCount' = 0
    /\ perfResults' = <<>>
    /\ wsResult' = 0
    /\ ncalls' = ncalls + 1
    /\ UNCHANGED <<device, caches, enable_profiling, kernels, pc, layer, winners>>

\* The candidate a directly preceding successful search recorded for the
\* algorithm, problem and workspace of this execute call, if any.
RecordedBy(find, p, a) ==
    IF /\ call.op = find /\ status = "ok" /\ a.bad = "none"
       /\ call.p = p /\ call.workSpace = a.ws.ptr /\ call.workSpaceSize = a.ws.size
    THEN {c \in call.registered : Resolver(find, c[1]) = a.algo}
    ELSE {}

\* Validation, then the plan: assertion, lookup, launches, time accounting.
\* A failed assertion aborts, or is compiled out (NDEBUG) and the call goes on.
\* The kernels of one call take the same time t each; with profiling enabled
\* the handle ends with the sum over the kernels the branch accounts for.
Execute(op, find, p, a, badParm, badScale, plan) ==
    /\ CanCall
    /\ call' = [op |-> op, p |-> p, algo |-> a.algo, workSpace |-> a.ws.ptr,
                workSpaceSize |-> a.ws.size, bad |-> a.bad]
    /\ ExecFrame
    /\ IF a.bad \in BadParmKinds \/ badParm
       THEN /\ status' = "miopenStatusBadParm"
            /\ exec' = NoExec
            /\ launched' = <<>>
            /\ UNCHANGED kernel_time
       ELSE IF a.bad = "alpha"
       THEN /\ status' = badScale
            /\ exec' = NoExec
            /\ launched' = <<>>
            /\ UNCHANGED kernel_time
       ELSE LET assertion == ~plan.asserted \/ (a.ws.ptr /\ a.ws.size >= plan.required)
                hit == plan.lookups \subseteq kernels
                rec == RecordedBy(find, p, a)
                counted == (IF plan.count_pre THEN plan.pre ELSE <<>>) \o plan.names
            IN  /\ exec' = [path |-> plan.path, lookups |-> plan.lookups, hit |-> hit,
                            assertion |-> assertion, recorded |-> rec # {},
                            registered |-> UNION {c[2] : c \in rec}]
                /\ \E ndebug \in (IF assertion THEN {TRUE} ELSE BOOLEAN) :
                     IF hit /\ (assertion \/ ndebug)
                     THEN /\ status' = "ok"
                          /\ launched' = plan.pre \o plan.names
                          /\ IF enable_profiling /\ counted # <<>>
                             THEN \E t \in Times :
                                    kernel_time' = SumOf([i \in 1..Len(counted) |-> t])
                             ELSE kernel_time' = IF plan.reset THEN 0 ELSE kernel_time
                     ELSE /\ status' = IF ~hit /\ (plan.lookup1st \/ assertion \/ ndebug)
                                       THEN "KernelNotFound" ELSE "AssertionFailed"
                          /\ launched' = plan.pre
                          /\ IF enable_profiling /\ plan.pre # <<>>
                             THEN \E t \in Times : kernel_time' = t
                             ELSE kernel_time' = IF plan.lookup1st /\ plan.reset /\ hit
                                                 THEN 0 ELSE kernel_time

ConvolutionForward(p, a) ==
    Execute("ConvolutionForward", "FindConvFwdAlgorithm", p, a,
            IF p.mode = "miopenConvolution" THEN p.x[2] # p.w[2] ELSE p.x[2] # p.w[1],
            "miopenStatusNotImplemented", ConvolutionForwardPlan(p, a))

ConvolutionBackwardData(p, a) ==
    Execute("ConvolutionBackwardData", "FindConvBwdDataAlgorithm", p, a,
            IF p.mode = "miopenConvolution" THEN p.y[2] # p.w[1] ELSE p.y[2] # p.w[2],
            "miopenStatusUnknownError", ConvolutionBackwardDataPlan(p, a))

ConvolutionBackwardWeights(p, a) ==
    Execute("ConvolutionBackwardWeights", "FindConvBwdWeightsAlgorithm", p, a,
            p.y[1] # p.x[1], "miopenStatusUnknownError",
            ConvolutionBackwardWeightsPlan(p, a))

\* Bias gradient: one kernel, compiled and registered by AddKernel, then launched.
ConvolutionBackwardBias(bad) ==
    /\ CanCall
    /\ call' = [op |-> "ConvolutionBackwardBias", bad |-> bad]
    /\ NoOutputs
    /\ ncalls' = ncalls + 1
    /\ IF bad \in {"buffer", "channels"}
       THEN /\ status' = "miopenStatusBadParm"
            /\ launched' = <<>>
            /\ UNCHANGED <<kernels, kernel_time>>
       ELSE IF bad = "alpha"
       THEN /\ status' = "miopenStatusUnknownError"
            /\ launched' = <<>>
            /\ UNCHANGED <<kernels, kernel_time>>
       ELSE /\ status' = "ok"
            /\ launched' = <<"MIOpenConvBwdB">>
            /\ kernels' = kernels \cup {<<"miopenConvolutionBwdBias", "">>}
            /\ IF enable_profiling THEN \E t \in Times : kernel_time' = t
               ELSE UNCHANGED kernel_time
    /\ UNCHANGED <<device, caches, enable_profiling, pc, layer, winners>>

(***************************************************************************)
(* The caller: calls of one layer on one handle.                           *)
(***************************************************************************)
FindCall ==
    \/ \E p \in ProblemsOf("fwd") : \E a \in FindArgs(p) : FindConvFwdAlgorithm(p, a)
    \/ \E p \in ProblemsOf("bwdData") : \E a \in FindArgs(p) : FindConvBwdDataAlgorithm(p, a)
    \/ \E p \in ProblemsOf("bwdWeights") : \E a \in FindArgs(p) :
            FindConvBwdWeightsAlgorithm(p, a)

FindStep ==
    \/ FwdGemm \/ FwdWinograd \/ FwdDirect \/ FwdFFT
    \/ BwdDataWinograd \/ BwdDataDirect \/ BwdDataFFT \/ BwdDataGemm
    \/ BwdWeightsGemm \/ BwdWeightsDirect
    \/ FindFinish

WorkSpaceQuery ==
    \/ \E p \in ProblemsOf("fwd") : ForwardGetWorkSpaceSize(p)
    \/ \E p \in ProblemsOf("bwdData") : BackwardDataGetWorkSpaceSize(p)
    \/ \E p \in ProblemsOf("bwdWeights") : ConvolutionBackwardWeightsGetWorkSpaceSize(p)

ExecuteCall ==
    \/ \E p \in ProblemsOf("fwd") : \E a \in ExecArgs(p, FwdAlgos) : ConvolutionForward(p, a)
    \/ \E p \in ProblemsOf("bwdData") : \E a \in ExecArgs(p, BwdDataAlgos) :
            ConvolutionBackwardData(p, a)
    \/ \E p \in ProblemsOf("bwdWeights") : \E a \in ExecArgs(p, BwdWeightsAlgos) :
            ConvolutionBackwardWeights(p, a)
    \/ \E bad \in {"none", "buffer", "channels", "alpha"} : ConvolutionBackwardBias(bad)

\* Workspace queries alone.
NextWS == WorkSpaceQuery

SpecWS == Init /\ [][NextWS]_vars

\* Searches, with the caller switching profiling on and off between them.
NextFind == FindCall \/ FindStep \/ EnableProfiling

SpecFind == Init /\ [][NextFind]_vars

\* Search calls whose workspace pointer may be null while workSpaceSize is not 0.
AnyWorkSpaces(p) == [ptr : BOOLEAN, size : {0} \cup WorkSpaceSizes(p)]

AnyFindArgs(p) == [req : 1..MaxRequest, ws : AnyWorkSpaces(p), nullArg : {"none"}]

FindCallAnyWorkSpace ==
    \/ \E p \in ProblemsOf("fwd") : \E a \in AnyFindArgs(p) : FindConvFwdAlgorithm(p, a)
    \/ \E p \in ProblemsOf("bwdData") : \E a \in AnyFindArgs(p) :
            FindConvBwdDataAlgorithm(p, a)
    \/ \E p \in ProblemsOf("bwdWeights") : \E a \in AnyFindArgs(p) :
            FindConvBwdWeightsAlgorithm(p, a)

NextFindAny == FindCallAnyWorkSpace \/ FindStep

SpecFindAny == Init /\ [][NextFindAny]_vars

\* Every operation of the engine.
Next == WorkSpaceQuery \/ FindCall \/ FindStep \/ ExecuteCall \/ EnableProfiling

Spec == Init /\ [][Next]_vars

\* Every operation, on a layer whose im2col buffer exceeds 1 GiB.
SpecBig == InitBig /\ [][Next]_vars

\* Every operation, on a padded 1x1 layer.
SpecPadded == InitPadded /\ [][Next]_vars

(***************************************************************************)
(* Properties.                                                             *)
(***************************************************************************)
UncachedOf(op, p) ==
    IF op = "ForwardGetWorkSpaceSize" THEN ForwardWorkSpaceUncached(p)
    ELSE IF op = "BackwardDataGetWorkSpaceSize" THEN BackwardDataWorkSpaceUncached(p)
    ELSE BackwardWeightsWorkSpaceUncached(p)

IsWorkSpaceOp(op) ==
    op \in {"ForwardGetWorkSpaceSize", "BackwardDataGetWorkSpaceSize",
            "ConvolutionBackwardWeightsGetWorkSpaceSize"}

IsSearchOp(op) ==
    op \in {"FindConvFwdAlgorithm", "FindConvBwdDataAlgorithm",
            "FindConvBwdWeightsAlgorithm"}

AlgoMapOf(op) ==
    IF op = "FindConvFwdAlgorithm" THEN fwd_map
    ELSE IF op = "FindConvBwdDataAlgorithm" THEN bwdData_map
    ELSE bwdWeights_map

\* The last call is a search that has returned.
SearchReturned == pc = "idle" /\ IsSearchOp(call.op)

\* The last call is a search that went through benchmarking and returned results.
SearchRanked == SearchReturned /\ status = "ok" /\ perf_db # <<>>

\* C1: every workspace query returns the value the uncached computation
\* yields for its own arguments, whatever was queried before on the handle.
C1_QueryEqualsUncached ==
    IsWorkSpaceOp(call.op) => wsResult = UncachedOf(call.op, call.p)

\* C2: a search call that finds its fingerprint in the algorithm cache
\* launches no kernel, whatever requestAlgoCount >= 1 it was given.
C2_HitLaunchesNoKernel ==
    (IsSearchOp(call.op) /\ call.hit) => launched = <<>>

\* C3: every successful search reports in perfResults[0] the winner that the
\* first successful search of the same direction and problem reported.
C3_SameWinner ==
    (SearchReturned /\ status = "ok") =>
        perfResults[1].algo = winners[<<call.op, call.p>>]

\* C4: the step of a search call with requestAlgoCount = 1 that hits the
\* cache launches no kernel and leaves the kernel-time counter, the profiling
\* flag and the six caches as they were.
C4_HitLeavesHandleUnchanged ==
    [][(/\ pc = "idle" /\ pc' = "idle" /\ ncalls' = ncalls + 1
        /\ IsSearchOp(call'.op) /\ call'.hit /\ call'.requestAlgoCount = 1)
       => (/\ launched' = <<>>
           /\ kernel_time' = kernel_time
           /\ enable_profiling' = enable_profiling
           /\ caches' = caches)]_vars

\* C5: an execute call with the algorithm, problem and workspace of a
\* candidate the preceding search recorded looks up exactly what the search
\* registered for that candidate, finds it, and passes its workspace assertion.
C5_ExecuteMatchesSearch ==
    exec.recorded =>
        /\ exec.lookups = exec.registered
        /\ exec.hit
        /\ exec.assertion

\* C6: after a successful search that started from a miss, the direction's
\* cache maps the fingerprint to the algorithm of perfResults[0], a candidate
\* of smallest time; no other key is added and no other cache changes.
C6_WinnerCached ==
    (SearchRanked /\ ~call.hit) =>
        LET map == AlgoMapOf(call.op)
            i0 == IF call.op = "FindConvFwdAlgorithm" THEN 4
                  ELSE IF call.op = "FindConvBwdDataAlgorithm" THEN 5 ELSE 6
            before == call.entry_caches
        IN  /\ returnedAlgoCount >= 1
            /\ DOMAIN map = DOMAIN before[i0] \cup {call.find_config}
            /\ map[call.find_config] = perfResults[1].algo
            /\ \A i \in 1..Len(perf_db) : perfResults[1].time <= perf_db[i].time
            /\ \E i \in 1..Len(perf_db) :
                  /\ perf_db[i].time = perfResults[1].time
                  /\ Resolver(call.op, perf_db[i].name) = map[call.find_config]
            /\ \A k \in DOMAIN before[i0] : map[k] = before[i0][k]
            /\ \A j \in (1..6) \ {i0} : caches[j] = before[j]

\* A miss-search that ranked several candidates with different times.
C6_Witness ==
    /\ SearchRanked /\ ~call.hit
    /\ Len(perf_db) >= 2
    /\ perf_db[1].time < perf_db[Len(perf_db)].time

\* C7: an entry of any of the six caches is there, with the same value, in
\* every later state.
C7_EntriesNeverChange ==
    [][\A j \in 1..6 : \A k \in DOMAIN caches[j] :
          k \in DOMAIN caches'[j] /\ caches'[j][k] = caches[j][k]]_vars

\* A search re-benchmarked a fingerprint that was cached and ranked another
\* winner than the cached one, which the cache still holds.
C7_Witness ==
    /\ SearchRanked /\ call.hit
    /\ call.find_config \in DOMAIN call.entry_caches[4] \cup
            DOMAIN call.entry_caches[5] \cup DOMAIN call.entry_caches[6]
    /\ perfResults[1].algo # AlgoMapOf(call.op)[call.find_config]

\* C8: when a search call has returned, on any exit path, the profiling flag
\* is what it was when the call was made; while the search benchmarks it is on.
C8_ProfilingRestored ==
    /\ SearchReturned => enable_profiling = call.prev_state
    /\ pc # "idle" => enable_profiling

\* An error propagated out of a candidate of a search made with profiling off.
C8_Witness ==
    SearchReturned /\ status = "Exception" /\ ~call.prev_state /\ ~enable_profiling

C10_NoCandidateNoEffect ==
    SearchReturned =>
        /\ (status = "ok" /\ ~(call.hit /\ call.requestAlgoCount = 1)) => perf_db # <<>>
        /\ status = "miopenStatusUnknownError" =>
              /\ returnedAlgoCount = -1
              /\ \A i \in 1..Len(perfResults) : perfResults[i] = Unwritten
              /\ caches = call.entry_caches
              /\ ~call.hit => call.find_config \notin DOMAIN AlgoMapOf(call.op)

\* A search from a miss ended with the no-viable-strategy error.
C10_Witness ==
    SearchReturned /\ status = "miopenStatusUnknownError" /\ ~call.hit /\ perf_db = <<>>

\* The step in which a benchmarking search ranks its candidates and returns.
RankingStep == pc = "finish" /\ pc' = "idle" /\ status' = "ok"

\* The index of the direction's algorithm cache among the six caches.
AlgoMapIndex(op) ==
    IF op = "FindConvFwdAlgorithm" THEN 4
    ELSE IF op = "FindConvBwdDataAlgorithm" THEN 5 ELSE 6

\* C11: a benchmarking search with candidates returns min(requestAlgoCount,
\* number of candidates) results, non-decreasing in time, which are the
\* candidates of smallest time, each with its own algorithm id, time and workspace.
C11_RankedResults ==
    [][RankingStep =>
        LET n == Len(perf_db)
            count == returnedAlgoCount'
        IN  /\ count = Min(call.requestAlgoCount, n)
            /\ \A i \in 1..(count - 1) : perfResults'[i].time <= perfResults'[i + 1].time
            /\ \E f \in PermutationsOf(n) :
                  /\ \A i \in 1..count :
                        perfResults'[i] =
                            [algo |-> Resolver(call.op, perf_db[f[i]].name),
                             time |-> perf_db[f[i]].time,
                             memory |-> perf_db[f[i]].workspace]
                  /\ \A j \in (count + 1)..n :
                        perf_db[f[j]].time >= perfResults'[count].time]_vars

\* A search returned fewer results than it had candidates, of different times.
C11_Witness ==
    /\ SearchRanked
    /\ returnedAlgoCount < Len(perf_db)
    /\ perf_db[1].time < perf_db[Len(perf_db)].time
    /\ perfResults[1].time = perf_db[1].time

\* C12: of two candidates with equal time, the one appended first is ranked
\* first, and when they tie for the minimum after a miss it is the one cached.
C12_StableRanking ==
    [][RankingStep =>
        \A i, j \in 1..Len(perf_db) :
            (i < j /\ perf_db[i].time = perf_db[j].time) =>
                /\ \A a, b \in 1..Len(perf_db) :
                      (perf_db'[a].name = perf_db[i].name /\
                       perf_db'[b].name = perf_db[j].name) => a < b
                /\ (~call.hit /\ \A k \in 1..Len(perf_db) :
                                    /\ perf_db[k].time >= perf_db[i].time
                                    /\ (k < i => perf_db[k].time > perf_db[i].time))
                   => caches'[AlgoMapIndex(call.op)][call.find_config] =
                          Resolver(call.op, perf_db[i].name)]_vars

IsExecuteOp(op) ==
    op \in {"ConvolutionForward", "ConvolutionBackwardData", "ConvolutionBackwardWeights"}

\* The step is a call of a search or of an execute function (the three
\* dispatchers) that fails its argument validation.
RejectedCallStep ==
    /\ ncalls' = ncalls + 1
    /\ \/ IsSearchOp(call'.op) /\ (call'.nullArg # "none" \/ call'.requestAlgoCount < 1)
       \/ IsExecuteOp(call'.op) /\ call'.bad \in BadParmKinds

\* C13: a search call with a null buffer, returnedAlgoCount or perfResults or
\* with requestAlgoCount < 1, and an execute call with a null buffer, a rank
\* or type mismatch, a rank below 3 or a channel / batch mismatch, raises
\* BadParm with no kernel launched and no cache entry, kernel registration,
\* profiling flag or output changed.
C13_ValidationBeforeEffects ==
    [][RejectedCallStep =>
        /\ status' = "miopenStatusBadParm"
        /\ pc' = "idle"
        /\ launched' = <<>>
        /\ caches' = caches
        /\ kernels' = kernels
        /\ enable_profiling' = enable_profiling
        /\ IsSearchOp(call'.op) =>
              /\ returnedAlgoCount' = -1
              /\ \A i \in 1..Len(perfResults') : perfResults'[i] = Unwritten]_vars

\* An execute call was rejected for a type mismatch on a handle that has
\* cached a winner and has profiling off.
C13_Witness ==
    /\ IsExecuteOp(call.op) /\ call.bad = "type"
    /\ status = "miopenStatusBadParm"
    /\ ~enable_profiling
    /\ DOMAIN fwd_map \cup DOMAIN bwdData_map \cup DOMAIN bwdWeights_map # {}

\* C14: the three execute functions and the bias gradient reject alpha # 1 or
\* beta # 0 with miopenStatusNotImplemented and launch nothing.
C14_ScaleNotImplemented ==
    (call.op \in {"ConvolutionForward", "ConvolutionBackwardData",
                  "ConvolutionBackwardWeights", "ConvolutionBackwardBias"}
     /\ call.bad = "alpha")
        => (status = "miopenStatusNotImplemented" /\ launched = <<>>)

\* What the top-level workspace query of a search's direction computes.
QuerySizeOf(op, p) ==
    IF op = "FindConvFwdAlgorithm" THEN ForwardWorkSpaceUncached(p)
    ELSE IF op = "FindConvBwdDataAlgorithm" THEN BackwardDataWorkSpaceUncached(p)
    ELSE BackwardWeightsWorkSpaceUncached(p)

\* C15: a search given a non-null workspace of exactly the size the top-level
\* query of its direction reports skips no strategy for lack of workspace.
C15_QuerySizeSuffices ==
    (IsSearchOp(call.op) /\ call.nullArg = "none" /\ call.requestAlgoCount >= 1
     /\ call.workSpace /\ call.workSpaceSize = QuerySizeOf(call.op, call.p))
        => call.skipped = {}

\* The device-capacity rule zeroes the GEMM workspace size of the problem.
CapacityRuleApplies(p) ==
    /\ device = "gfx803"
    /\ ~Is1x1Stride1Pad0(p, p.w)
    /\ GemmWorkspace(p, p.w, p.y) > OneGiB

Launched(name) == \E i \in 1..Len(launched) : launched[i] = name

\* C16: for a problem whose GEMM workspace size is reported as 0 by the
\* device-capacity rule, neither a search nor an execute call runs the
\* im2col / col2im GEMM path into the caller's workspace.
C16_CapacityFallback ==
    ((IsSearchOp(call.op) \/ IsExecuteOp(call.op)) /\ CapacityRuleApplies(call.p))
        => (~Launched("Im2ColGPU") /\ ~Launched("Col2ImGPU"))

(***************************************************************************)
(* The workspace planner as pure functions of one problem.  A size_t is a   *)
(* sequence of 8 bytes, least significant first, so that 64-bit results    *)
(* and the 32-bit int products that precede them keep their width.         *)
(***************************************************************************)
ByteRange == 256

SizeTBytes == 8

IntBytes == 4

\* The n least significant bytes of the natural number v.
RECURSIVE ToBytes(_, _)
ToBytes(v, n) ==
    IF n = 0 THEN <<>> ELSE <<v % ByteRange>> \o ToBytes(v \div ByteRange, n - 1)

RECURSIVE MulCarry(_, _, _)
MulCarry(b, m, carry) ==
    IF b = <<>> THEN <<>>
    ELSE LET t == Head(b) * m + carry
         IN  <<t % ByteRange>> \o MulCarry(Tail(b), m, t \div ByteRange)

\* b * m in the width of b: the carry out of the top byte is dropped.
MulBytes(b, m) == MulCarry(b, m, 0)

RECURSIVE ProductBytes(_, _)
ProductBytes(b, factors) ==
    IF factors = <<>> THEN b ELSE ProductBytes(MulBytes(b, Head(factors)), Tail(factors))

\* Unsigned a > b for byte sequences of one length.
RECURSIVE GtBytes(_, _)
GtBytes(a, b) ==
    IF a = <<>> THEN FALSE
    ELSE LET n == Len(a)
         IN  IF a[n] # b[n] THEN a[n] > b[n]
             ELSE GtBytes(SubSeq(a, 1, n - 1), SubSeq(b, 1, n - 1))

Zero64 == [i \in 1..SizeTBytes |-> 0]

\* (1 << 30) converted to size_t
OneGiB64 == [i \in 1..SizeTBytes |-> IF i = 4 THEN 64 ELSE 0]

\* INT_MAX converted to size_t
IntMax64 == [i \in 1..SizeTBytes |-> IF i < 4 THEN 255 ELSE IF i = 4 THEN 127 ELSE 0]

\* Conversion of an int (its 4 bytes) to size_t: sign extension.
IntToSizeT(b) ==
    [i \in 1..SizeTBytes |-> IF i <= IntBytes THEN b[i]
                             ELSE IF b[IntBytes] >= 128 THEN 255 ELSE 0]

\* What a signed overflow of the int product may yield: the low 32 bits
\* (imul), or the full product kept in a 64-bit register.
OverflowOutcomes == {"wrap", "wide"}

\* wei_c * wei_h * wei_w * out_h * out_w, evaluated in int and converted to
\* size_t for the multiplication by GetTypeSize.
IntProductToSizeT(factors, ub) ==
    LET exact == ProductBytes(ToBytes(1, SizeTBytes), factors)
    IN  IF ~GtBytes(exact, IntMax64) \/ ub = "wide" THEN exact
        ELSE IntToSizeT(SubSeq(exact, 1, IntBytes))

GemmWorkspace64(p, wLen, oLen, ub) ==
    MulBytes(IntProductToSizeT(<<wLen[2], wLen[3], wLen[4], oLen[3], oLen[4]>>, ub),
             GetTypeSize(p.type))

ForwardGetWorkSpaceSizeGEMM64(p, wLen, yLen, ub) ==
    LET workspace_size == GemmWorkspace64(p, wLen, yLen, ub)
    IN  IF Is1x1Stride1Pad0(p, wLen) THEN Zero64
        ELSE IF GtBytes(workspace_size, OneGiB64) /\ device = "gfx803" THEN Zero64
        ELSE workspace_size

BackwardDataGetWorkSpaceSizeGEMM64(p, wLen, dyLen, ub) ==
    LET gemm_size == GemmWorkspace64(p, wLen, dyLen, ub)
    IN  IF Is1x1Stride1Pad0(p, wLen) THEN Zero64
        ELSE IF device = "gfx803" /\ GtBytes(gemm_size, OneGiB64) THEN Zero64
        ELSE gemm_size

BackwardWeightsGetWorkSpaceSizeGEMM64(p, dyLen, dwLen, ub) ==
    LET gemm_size == GemmWorkspace64(p, dwLen, dyLen, ub)
    IN  IF device = "gfx803" /\ GtBytes(gemm_size, OneGiB64) THEN Zero64 ELSE gemm_size

\* The backward-weights solver subsamples a strided 1x1 problem into the
\* workspace; the other problems of the planner need none.
SolverWrwWorkspace(k0, k1, u, v) ==
    IF k0 = 1 /\ k1 = 1 /\ (u > 1 \/ v > 1) THEN 64 ELSE 0

SolverWrwKernels(k0, k1, u, v) ==
    IF k0 = 1 /\ k1 = 1 /\ (u > 1 \/ v > 1) THEN <<"SubSample", "gcnAsmConv1x1WrW">>
    ELSE <<"MIOpenCvBwdWrW">>

\* A k0 x k1 convolution of a square image with c channels.
PlannerProblem(k0, k1, u, v, pad, c, in) ==
    LET cd == [Desc("miopenConvolution", pad, 1, 1) EXCEPT !.u = u, !.v = v]
        out_h == (in + 2 * pad - k0) \div u + 1
        out_w == (in + 2 * pad - k1) \div v + 1
    IN  Problem(cd, <<1, c, in, in>>, <<2, c, k0, k1>>, <<1, 2, out_h, out_w>>,
                <<0, SolverWrwKernels(k0, k1, u, v), SolverWrwWorkspace(k0, k1, u, v), 0>>)

PlannerFilters == {<<1, 1>>, <<3, 3>>, <<4, 4>>, <<5, 10>>}

PlannerStrides == 1..3

PlannerPads == 0..1

PlannerChannels == {2, 1024, 2048, 8192, 16384}

PlannerImages == {32, 1024}

PlannerProblems ==
    {PlannerProblem(k[1], k[2], u, v, pad, c, in) :
        k \in PlannerFilters, u \in PlannerStrides, v \in PlannerStrides,
        pad \in PlannerPads, c \in PlannerChannels, in \in PlannerImages}

GemmSizers ==
    {"ForwardGetWorkSpaceSizeGEMM", "BackwardDataGetWorkSpaceSizeGEMM",
     "BackwardWeightsGetWorkSpaceSizeGEMM"}

DirectSizers ==
    {"ForwardBackwardDataGetWorkSpaceSizeDirect", "BackwardWeightsGetWorkSpaceSizeDirect"}

DirectPredicates == {"IsDirectSupported", "IsBwdWeightsDirectSupported"}

\* What a planner function answers: a size for a sizer, a truth value for a
\* predicate.
PlanResult(size, supported) == [size |-> size, supported |-> supported]

\* A fresh handle and the problem one planner function is about to be applied to.
InitPlanner ==
    /\ FreshHandle
    /\ wsResult = PlanResult(Zero64, FALSE)
    /\ call \in [op : {"plan"}, p : PlannerProblems]
    /\ layer = [dir |-> "fwd", shape |-> ShapeOf(call.p)]

PlannerFrame ==
    /\ pc' = "planned"
    /\ UNCHANGED <<device, caches, enable_profiling, kernel_time, kernels, perf_db, launched,
                   returnedAlgoCount, perfResults, status, exec, ncalls, layer, winners>>

\* One of the three GEMM sizers is applied to the problem.
GemmSizerCall ==
    /\ pc = "idle" /\ call.op = "plan"
    /\ \E fn \in GemmSizers, ub \in OverflowOutcomes :
         LET p == call.p
         IN  /\ call' = [op |-> fn, p |-> p, ub |-> ub]
             /\ wsResult' = PlanResult(
                  IF fn = "ForwardGetWorkSpaceSizeGEMM"
                  THEN ForwardGetWorkSpaceSizeGEMM64(p, p.w, p.y, ub)
                  ELSE IF fn = "BackwardDataGetWorkSpaceSizeGEMM"
                  THEN BackwardDataGetWorkSpaceSizeGEMM64(p, p.w, p.y, ub)
                  ELSE BackwardWeightsGetWorkSpaceSizeGEMM64(p, p.y, p.w, ub), FALSE)
    /\ PlannerFrame

\* One of the two direct sizers is applied to the problem.
DirectSizerCall ==
    /\ pc = "idle" /\ call.op = "plan"
    /\ \E fn \in DirectSizers :
         /\ call' = [op |-> fn, p |-> call.p, ub |-> "none"]
         /\ wsResult' = PlanResult(
              IF fn = "ForwardBackwardDataGetWorkSpaceSizeDirect"
              THEN ToBytes(ForwardBackwardDataGetWorkSpaceSizeDirect(call.p), SizeTBytes)
              ELSE ToBytes(BackwardWeightsGetWorkSpaceSizeDirect(call.p), SizeTBytes), FALSE)
    /\ PlannerFrame

\* One of the two direct predicates is applied to the problem.
DirectPredicateCall ==
    /\ pc = "idle" /\ call.op = "plan"
    /\ \E fn \in DirectPredicates :
         /\ call' = [op |-> fn, p |-> call.p, ub |-> "none"]
         /\ wsResult' = PlanResult(Zero64,
                                   IF fn = "IsDirectSupported" THEN IsDirectSupported(call.p)
                                   ELSE IsBwdWeightsDirectSupported(call.p))
    /\ PlannerFrame

NextPlanner == GemmSizerCall \/ DirectSizerCall \/ DirectPredicateCall

SpecPlanner == InitPlanner /\ [][NextPlanner]_vars

\* A planner function has been applied.
Planned(fns) == pc = "planned" /\ call.op \in fns

\* filter_channels * kh * kw * out_h * out_w * elemSize, exactly.
ExactGemmSize(p) ==
    ProductBytes(ToBytes(1, SizeTBytes),
                 <<p.w[2], p.w[3], p.w[4], p.y[3], p.y[4], GetTypeSize(p.type)>>)

\* C17: outside the 1x1 / stride 1 / pad 0 case each GEMM sizer returns the
\* exact product filter_channels * kh * kw * out_h * out_w * elemSize, with no
\* wrap-around of the 32-bit products, except 0 on gfx803 when the product is
\* strictly above 2^30.
C17_GemmSizeExact ==
    (Planned(GemmSizers) /\ ~Is1x1Stride1Pad0(call.p, call.p.w))
        => wsResult.size = IF device = "gfx803" /\ GtBytes(ExactGemmSize(call.p), OneGiB64)
                           THEN Zero64 ELSE ExactGemmSize(call.p)

\* C18: for a 1x1 filter with stride 1 and zero padding every GEMM sizer and
\* every direct sizer returns 0.
C18_PureGemmNeedsNoWorkspace ==
    (Planned(GemmSizers \cup DirectSizers) /\ Is1x1Stride1Pad0(call.p, call.p.w))
        => wsResult.size = Zero64

\* C19: a direct strategy whose applicability predicate is false, or which is
\* disabled, contributes 0 to the workspace size.
C19_FalsePredicateNoWorkspace ==
    /\ (Planned({"ForwardBackwardDataGetWorkSpaceSizeDirect"})
        /\ (~IsDirectSupported(call.p) \/ DirectDisabled)) => wsResult.size = Zero64
    /\ (Planned({"BackwardWeightsGetWorkSpaceSizeDirect"})
        /\ (~IsBwdWeightsDirectSupported(call.p) \/ DirectDisabled)) => wsResult.size = Zero64

\* C20: IsDirectSupported is true exactly when the filter is square with side
\* in {1, 3, 5, 7, 9, 11}, or 5x10 or 5x20 with stride 2 and zero padding, and
\* the problem is none of: 1x1 with a stride > 2, 3x3 with a stride > 2, a
\* filter with both dimensions even.
C20_DirectSupportedExactly ==
    Planned({"IsDirectSupported"}) =>
        LET p == call.p
            k0 == p.w[3]
            k1 == p.w[4]
            filter == \/ (k0 = k1 /\ k0 \in {1, 3, 5, 7, 9, 11})
                      \/ (k0 = 5 /\ k1 \in {10, 20} /\ p.u = 2 /\ p.v = 2
                          /\ p.pad_h = 0 /\ p.pad_w = 0)
            excluded == \/ (k0 = 1 /\ k1 = 1 /\ (p.u > 2 \/ p.v > 2))
                        \/ (k0 = 3 /\ k1 = 3 /\ (p.u > 2 \/ p.v > 2))
                        \/ (k0 % 2 = 0 /\ k1 % 2 = 0)
        IN  wsResult.supported = (filter /\ ~excluded)

\* C21: IsBwdWeightsDirectSupported accepts only filters of the allowlist
\* IsDirectSupported uses, rejects a 1x1 filter when a stride exceeds 2, and
\* every (filter shape, stride, padding) combination it rejects is rejected
\* by IsDirectSupported too.
C21_BwdWeightsExclusionNarrower ==
    Planned({"IsBwdWeightsDirectSupported"}) =>
        LET p == call.p
        IN  /\ wsResult.supported => SupportedFilters(p, p.w[3], p.w[4])
            /\ (p.w[3] = 1 /\ p.w[4] = 1 /\ (p.u > 2 \/ p.v > 2)) => ~wsResult.supported
            /\ ~wsResult.supported => ~IsDirectSupported(p)

\* The forward search is past its GEMM step.
PastFwdGemm ==
    /\ call.op = "FindConvFwdAlgorithm"
    /\ pc \in {"fwd_winograd", "fwd_direct", "fwd_fft", "finish"}

GemmCandidates ==
    {i \in 1..Len(perf_db) : perf_db[i].name = "miopenConvolutionFwdAlgoGEMM"}

\* 1x1 filter, zero padding, dilation 1, and stride 2 in both axes or stride 1
\* with input height and width at most 14, in Convolution mode on float data.
SmallExtentOrStride2 ==
    LET p == call.p
    IN  /\ p.mode = "miopenConvolution" /\ p.type = "miopenFloat"
        /\ p.w[3] = 1 /\ p.w[4] = 1 /\ p.pad_h = 0 /\ p.pad_w = 0
        /\ p.dilation_h = 1 /\ p.dilation_w = 1
        /\ \/ (p.u = 2 /\ p.v = 2)
           \/ (p.u = 1 /\ p.v = 1 /\ p.x[3] <= 14 /\ p.x[4] <= 14)

\* C30: in the forward search of such a problem, with a non-null workspace of
\* at least ForwardGetWorkSpaceSizeGEMMTranspose bytes the GEMM candidate
\* recorded is the transpose path and its workspace is that size, which is
\* greater than 0; with a null or smaller workspace no GEMM candidate is
\* recorded.
C30_FwdTransposeCandidate ==
    (PastFwdGemm /\ SmallExtentOrStride2) =>
        LET p == call.p
            workspace_req == ForwardGetWorkSpaceSizeGEMMTranspose(p, p.x, p.y)
        IN  IF call.workSpace /\ call.workSpaceSize >= workspace_req
            THEN /\ workspace_req > 0
                 /\ Cardinality(GemmCandidates) = 1
                 /\ \A i \in GemmCandidates : perf_db[i].workspace = workspace_req
                 /\ Launched("transpose_NCHW2CNHW") /\ Launched("transpose_CNHW2NCHW")
                 /\ GemmEntry("CreateGemmGeometryConvFwdCNHW", p.x, p.w, p.y) \in kernels
            ELSE GemmCandidates = {} /\ ~Launched("RunGemm")

\* Stride 1 on a 4x4 image with a sufficient workspace: the transpose
\* candidate is recorded with its workspace size.
C30_Witness ==
    /\ PastFwdGemm /\ SmallExtentOrStride2
    /\ call.p.u = 1 /\ call.p.x[3] <= 14
    /\ call.workSpace
    /\ \E i \in GemmCandidates :
         /\ perf_db[i].workspace = ForwardGetWorkSpaceSizeGEMMTranspose(call.p, call.p.x, call.p.y)
         /\ perf_db[i].workspace > 0

(***************************************************************************)
(* IsWinograd3x3Supported with the width of its int products kept.  The    *)
(* operator IsWinograd3x3Supported above is the same predicate for         *)
(* problems whose products fit an int.                                     *)
(***************************************************************************)
\* std::pow(2, 28) as a 64-bit value
Pow2_28_64 == ToBytes(Pow2_28, SizeTBytes)

\* int product <= std::pow(2, 28): the product is a signed value.
IntProductLePow2_28(factors, ub) ==
    LET product == IntProductToSizeT(factors, ub)
    IN  product[SizeTBytes] >= 128 \/ ~GtBytes(product, Pow2_28_64)

IsWinograd3x3Supported64(p, direction, wLen, xLen, ub, disabled) ==
    IF disabled THEN FALSE
    ELSE IF ~(device \in {"gfx803", "gfx900", "gfx906"}) THEN FALSE
    ELSE LET device_is_gfx8 == device = "gfx803"
             n_inputs == xLen[2]
             in_height == xLen[3]
             in_width == xLen[4]
             n_outputs == IF direction = 1 THEN wLen[1] ELSE wLen[2]
         IN  /\ p.pad_h = 1 /\ p.pad_w = 1 /\ wLen[3] = 3 /\ wLen[4] = 3
             /\ p.u = 1 /\ p.v = 1
             /\ xLen[1] < Pow2_16 /\ n_inputs < Pow2_16 /\ n_outputs < Pow2_16
             /\ in_height < Pow2_16 /\ in_width < Pow2_16 /\ MaxComputeUnits < Pow2_16
             /\ IntProductLePow2_28(<<n_inputs, in_height, in_width>>, ub)
             /\ IntProductLePow2_28(<<n_outputs, in_height, in_width>>, ub)
             /\ IntProductLePow2_28(<<n_inputs, wLen[3], wLen[4]>>, ub)
             /\ IntProductLePow2_28(<<n_outputs, wLen[3], wLen[4]>>, ub)
             /\ n_inputs % 2 = 0
             /\ n_inputs >= (IF device_is_gfx8 THEN 16 ELSE 18)
             /\ GetTypeSize(p.type) = 4

\* A k x k convolution of an h x w image with c channels into kout channels.
WinogradProblem(k, pad, stride, c, kout, h, w, type) ==
    [Problem(Desc("miopenConvolution", pad, stride, 1), <<1, c, h, w>>, <<kout, c, k, k>>,
             <<1, kout, (h + 2 * pad - k) \div stride + 1, (w + 2 * pad - k) \div stride + 1>>,
             NoExt) EXCEPT !.type = type]

WinogradChannels == {15, 16, 17, 18, 65536}

WinogradOutputs == {2, 65536}

WinogradHeights == {32, 32768, 65536}

WinogradWidths == {32, 32768}

WinogradProblems ==
    {WinogradProblem(k, pad, stride, c, kout, h, w, t) :
        k \in {3, 5}, pad \in {0, 1}, stride \in {1, 2}, c \in WinogradChannels,
        kout \in WinogradOutputs, h \in WinogradHeights, w \in WinogradWidths,
        t \in {"miopenFloat", "miopenHalf"}}

InitWinograd ==
    /\ FreshHandle
    /\ wsResult = PlanResult(Zero64, FALSE)
    /\ call \in [op : {"plan"}, p : WinogradProblems]
    /\ layer = [dir |-> "fwd", shape |-> ShapeOf(call.p)]

\* IsWinograd3x3Supported is applied to the problem, for the forward
\* (direction 1) or the backward-data direction, with precompiled binaries
\* enabled or disabled in the environment.
WinogradPredicateCall ==
    /\ pc = "idle" /\ call.op = "plan"
    /\ \E direction \in {0, 1}, ub \in OverflowOutcomes, disabled \in BOOLEAN :
         /\ call' = [op |-> "IsWinograd3x3Supported", p |-> call.p, direction |-> direction,
                     ub |-> ub, disabled |-> disabled]
         /\ wsResult' = PlanResult(Zero64,
                                   IsWinograd3x3Supported64(call.p, direction, call.p.w,
                                                            call.p.x, ub, disabled))
    /\ PlannerFrame

NextWinograd == WinogradPredicateCall

SpecWinograd == InitWinograd /\ [][NextWinograd]_vars

\* The exact product of the factors is at most 2^28.
ExactProductLePow2_28(factors) ==
    ~GtBytes(ProductBytes(ToBytes(1, SizeTBytes), factors), Pow2_28_64)

\* C22: IsWinograd3x3Supported returns true only if the filter is 3x3, stride
\* and padding are 1, the device is gfx803, gfx900 or gfx906, the operand type
\* is 4 bytes wide, the input channel count is even and at least 16 (gfx8) or
\* 18, batch, channels, height, width and compute units are below 2^16 and
\* the exact products C*H*W, K*H*W, C*3*3 and K*3*3 are at most 2^28; it
\* returns false when precompiled binaries are disabled.
C22_WinogradSupportedOnlyIf ==
    Planned({"IsWinograd3x3Supported"}) =>
        LET p == call.p
            C == p.x[2]
            K == IF call.direction = 1 THEN p.w[1] ELSE p.w[2]
            H == p.x[3]
            W == p.x[4]
        IN  /\ call.disabled => ~wsResult.supported
            /\ wsResult.supported =>
                 /\ p.w[3] = 3 /\ p.w[4] = 3 /\ p.u = 1 /\ p.v = 1
                 /\ p.pad_h = 1 /\ p.pad_w = 1
                 /\ device \in {"gfx803", "gfx900", "gfx906"}
                 /\ GetTypeSize(p.type) = 4
                 /\ C % 2 = 0 /\ C >= (IF device = "gfx803" THEN 16 ELSE 18)
                 /\ p.x[1] < Pow2_16 /\ C < Pow2_16 /\ K < Pow2_16 /\ H < Pow2_16
                 /\ W < Pow2_16 /\ MaxComputeUnits < Pow2_16
                 /\ ExactProductLePow2_28(<<C, H, W>>)
                 /\ ExactProductLePow2_28(<<K, H, W>>)
                 /\ ExactProductLePow2_28(<<C, 3, 3>>)
                 /\ ExactProductLePow2_28(<<K, 3, 3>>)

(***************************************************************************)
(* Construction of a ConvolutionDescriptor (convolution.cpp).              *)
(***************************************************************************)
ConvolutionModes == {"miopenConvolution", "miopenTranspose"}

PaddingModes == {"miopenPaddingDefault", "miopenPaddingSame", "miopenPaddingValid"}

\* Values a caller may pass: the enumerators and a value that is none of them.
ModeArgs == ConvolutionModes \cup {"other"}

PaddingModeArgs == PaddingModes \cup {"other"}

PadArgs == -1..1

StrideArgs == 0..2

DilationArgs == 0..2

\* Arguments of the 6-argument and of the 8-argument constructor.
CtorArgs ==
    [ctor : {6}, c_mode : {"none"}, p_mode : {"none"}, p_pad_h : PadArgs, p_pad_w : PadArgs,
     p_u : StrideArgs, p_v : StrideArgs, p_dilation_h : DilationArgs,
     p_dilation_w : DilationArgs]
    \cup
    [ctor : {8}, c_mode : ModeArgs, p_mode : PaddingModeArgs, p_pad_h : PadArgs,
     p_pad_w : PadArgs, p_u : StrideArgs, p_v : StrideArgs, p_dilation_h : DilationArgs,
     p_dilation_w : DilationArgs]

\* The members of a descriptor after the initialiser list.
Members(a) ==
    [mode |-> IF a.ctor = 6 THEN "miopenConvolution" ELSE a.c_mode,
     paddingMode |-> IF a.ctor = 6 THEN "miopenPaddingDefault" ELSE a.p_mode,
     pad_h |-> a.p_pad_h, pad_w |-> a.p_pad_w, u |-> a.p_u, v |-> a.p_v,
     dilation_h |-> a.p_dilation_h, dilation_w |-> a.p_dilation_w]

\* A parameter check that forgets the equality of the two dilations.
InvalidParametersNoEquality(d) ==
    \/ d.pad_h < 0 \/ d.pad_w < 0 \/ d.u <= 0 \/ d.v <= 0
    \/ d.dilation_h <= 0 \/ d.dilation_w <= 0

\* The first check of both constructors.
InvalidParameters(d) ==
    \/ d.pad_h < 0 \/ d.pad_w < 0 \/ d.u <= 0 \/ d.v <= 0
    \/ d.dilation_h <= 0 \/ d.dilation_w <= 0
    \/ d.dilation_h # d.dilation_w

\* The constructor throws: the parameter check of both constructors, the mode
\* and padding mode checks of the 8-argument one.
CtorThrows(a) ==
    LET d == Members(a)
    IN  \/ InvalidParameters(d)
        \/ a.ctor = 8 /\ ~(d.mode = "miopenConvolution" \/ d.mode = "miopenTranspose")
        \/ a.ctor = 8 /\ ~(d.paddingMode = "miopenPaddingSame"
                           \/ d.paddingMode = "miopenPaddingValid"
                           \/ d.paddingMode = "miopenPaddingDefault")

\* No descriptor: construction has not run, or it threw.
NoDescriptor ==
    [exists |-> FALSE, mode |-> "none", paddingMode |-> "none", pad_h |-> 0, pad_w |-> 0,
     u |-> 0, v |-> 0, dilation_h |-> 0, dilation_w |-> 0]

Constructed(d) ==
    [exists |-> TRUE, mode |-> d.mode, paddingMode |-> d.paddingMode, pad_h |-> d.pad_h,
     pad_w |-> d.pad_w, u |-> d.u, v |-> d.v, dilation_h |-> d.dilation_h,
     dilation_w |-> d.dilation_w]

InitDescriptor ==
    /\ FreshHandle
    /\ call \in [op : {"construct"}, args : CtorArgs]
    /\ wsResult = NoDescriptor
    /\ layer = [dir |-> "fwd", shape |-> ShapeOf(P_1x1)]

\* ConvolutionDescriptor::ConvolutionDescriptor, either overload.
ConstructDescriptor ==
    /\ pc = "idle" /\ call.op = "construct"
    /\ pc' = "constructed"
    /\ call' = [call EXCEPT !.op = "ConvolutionDescriptor"]
    /\ IF CtorThrows(call.args)
       THEN status' = "miopenStatusBadParm" /\ wsResult' = NoDescriptor
       ELSE status' = "ok" /\ wsResult' = Constructed(Members(call.args))
    /\ UNCHANGED <<device, caches, enable_profiling, kernel_time, kernels, perf_db, launched,
                   returnedAlgoCount, perfResults, exec, ncalls, layer, winners>>

NextDescriptor == ConstructDescriptor

SpecDescriptor == InitDescriptor /\ [][NextDescriptor]_vars

\* C29: construction raises BadParm exactly when a pad is negative, a stride
\* or dilation is below 1, the dilations differ, or (8 arguments) the mode or
\* the padding mode is not an enumerator; a descriptor that exists satisfies
\* all of these, and the 6-argument constructor yields Convolution / Default.
C29_ConstructorValidates ==
    pc = "constructed" =>
        LET a == call.args
            bad == \/ a.p_pad_h < 0 \/ a.p_pad_w < 0 \/ a.p_u < 1 \/ a.p_v < 1
                   \/ a.p_dilation_h < 1 \/ a.p_dilation_w < 1
                   \/ a.p_dilation_h # a.p_dilation_w
                   \/ (a.ctor = 8 /\ (a.c_mode \notin ConvolutionModes
                                      \/ a.p_mode \notin PaddingModes))
        IN  /\ (status = "miopenStatusBadParm") = bad
            /\ wsResult.exists = ~bad
            /\ wsResult.exists =>
                 /\ wsResult.pad_h >= 0 /\ wsResult.pad_w >= 0
                 /\ wsResult.u >= 1 /\ wsResult.v >= 1
                 /\ wsResult.dilation_h >= 1 /\ wsResult.dilation_h = wsResult.dilation_w
                 /\ wsResult.mode \in ConvolutionModes
                 /\ wsResult.paddingMode \in PaddingModes
                 /\ (a.ctor = 6 => (wsResult.mode = "miopenConvolution"
                                    /\ wsResult.paddingMode = "miopenPaddingDefault"))
                 /\ wsResult.pad_h = a.p_pad_h /\ wsResult.u = a.p_u

\* The 6-argument constructor built a descriptor with dilation 2.
C29_Witness ==
    /\ pc = "constructed" /\ call.args.ctor = 6 /\ wsResult.exists
    /\ wsResult.dilation_h = 2

(***************************************************************************)
(* Shape functions (convolution.cpp): GetForwardOutputDim,                 *)
(* GetBackwardOutputDim, GetBackwardsWeightsDim.  The functions compute in *)
(* std::ptrdiff_t or std::size_t and return a tuple of std::size_t, here   *)
(* 8 bytes each, least significant first.                                  *)
(***************************************************************************)
\* Integer division of C++: the quotient is truncated towards zero.
TruncDiv(a, b) == IF a >= 0 THEN a \div b ELSE -((-a) \div b)

\* std::ceil(static_cast<double>(a) / b) for b > 0, converted back to an integer.
CeilOfQuotient(a, b) == IF a > 0 THEN (a + b - 1) \div b ELSE -((-a) \div b)

\* Conversion of a signed value to std::size_t: modulo 2^64.
ToSizeT(v) ==
    IF v >= 0 THEN ToBytes(v, SizeTBytes)
    ELSE [i \in 1..SizeTBytes |-> (ByteRange - 1) - ToBytes(-v - 1, SizeTBytes)[i]]

\* A length that fits in three bytes, as a number.
IsSmall(b) == \A i \in 4..SizeTBytes : b[i] = 0

FromSizeT(b) == b[1] + ByteRange * b[2] + ByteRange * ByteRange * b[3]

TensorDescriptor(type, len) == [type |-> type, len |-> len]

\* The forward output extent without the clamp to 1.
ConvolutionExtentUnclamped(in, k, pad, stride, dilation) ==
    TruncDiv(in - (1 + dilation * (k - 1)) + 2 * pad, stride) + 1

\* Default padding, miopenConvolution.
ConvolutionExtent(in, k, pad, stride, dilation) ==
    Max(1, TruncDiv(in - (1 + dilation * (k - 1)) + 2 * pad, stride) + 1)

\* Default padding, miopenTranspose.
TransposeExtent(in, k, pad, stride, dilation) ==
    Max(1, stride * (in - 1) + 1 + dilation * (k - 1) - 2 * pad)

\* A channel check that takes the filter's axis 1 in both modes.
ChannelsMismatchAnyMode(d, x, w) == x.len[2] # w.len[2]

\* The channel check of GetForwardOutputDim.
ChannelsMismatch(d, x, w) ==
    IF d.mode = "miopenConvolution" THEN x.len[2] # w.len[2]
    ELSE IF d.mode = "miopenTranspose" THEN x.len[2] # w.len[1]
    ELSE FALSE

Thrown(st) == [status |-> st, dims |-> <<>>]

Returned(n, c, h, w) ==
    [status |-> "ok", dims |-> <<ToSizeT(n), ToSizeT(c), ToSizeT(h), ToSizeT(w)>>]

GetForwardOutputDim(d, inputTensorDesc, filterDesc) ==
    LET x == inputTensorDesc.len
        f == filterDesc.len
    IN  IF inputTensorDesc.type # filterDesc.type THEN Thrown("miopenStatusBadParm")
        ELSE IF ChannelsMismatch(d, inputTensorDesc, filterDesc)
        THEN Thrown("miopenStatusBadParm")
        ELSE IF d.paddingMode = "miopenPaddingDefault"
        THEN IF d.mode = "miopenTranspose"
             THEN Returned(x[1], f[2],
                           TransposeExtent(x[3], f[3], d.pad_h, d.u, d.dilation_h),
                           TransposeExtent(x[4], f[4], d.pad_w, d.v, d.dilation_w))
             ELSE Returned(x[1], f[1],
                           ConvolutionExtent(x[3], f[3], d.pad_h, d.u, d.dilation_h),
                           ConvolutionExtent(x[4], f[4], d.pad_w, d.v, d.dilation_w))
        ELSE IF d.paddingMode = "miopenPaddingSame"
        THEN Returned(x[1], f[1], CeilOfQuotient(x[3], d.u), CeilOfQuotient(x[4], d.v))
        ELSE IF d.paddingMode = "miopenPaddingValid"
        THEN Returned(x[1], f[1], CeilOfQuotient(x[3] - f[3] + 1, d.u),
                      CeilOfQuotient(x[4] - f[4] + 1, d.v))
        ELSE Thrown("miopenStatusInvalidValue")

GetBackwardsWeightsDim(d, inputTensorDesc, outputTensorDesc) ==
    LET x == inputTensorDesc.len
        y == outputTensorDesc.len
    IN  IF inputTensorDesc.type # outputTensorDesc.type THEN Thrown("miopenStatusBadParm")
        ELSE Returned(y[2], x[2],
                      2 * d.pad_h + x[3] - d.u * (y[3] - 1),
                      2 * d.pad_w + x[4] - d.v * (y[4] - 1))

GetBackwardOutputDim(d, outputTensorDesc, filterDesc) ==
    LET y == outputTensorDesc.len
        f == filterDesc.len
    IN  IF outputTensorDesc.type # filterDesc.type THEN Thrown("miopenStatusBadParm")
        ELSE IF y[2] # f[1] THEN Thrown("miopenStatusBadParm")
        ELSE Returned(y[1], f[2],
                      d.u * (y[3] - 1) - 2 * d.pad_h + f[3],
                      d.v * (y[4] - 1) - 2 * d.pad_w + f[4])

MaxPad == 2

MaxStride == 3

MaxDilation == 2

MaxImage == 5

MaxFilter == 3

\* The descriptors the shape functions are applied to: all of them constructed.
ShapeDescriptors ==
    {Constructed([mode |-> m, paddingMode |-> pm, pad_h |-> pad, pad_w |-> pad,
                  u |-> stride, v |-> stride, dilation_h |-> dil, dilation_w |-> dil]) :
        m \in ConvolutionModes, pm \in PaddingModes, pad \in 0..MaxPad,
        stride \in 1..MaxStride, dil \in 1..MaxDilation}

\* Input tensors: batch 2, 2 or 3 channels, h x w with h + w = MaxImage + 1.
ShapeInputs ==
    {TensorDescriptor(t, <<2, c, h, MaxImage + 1 - h>>) :
        t \in {"miopenFloat", "miopenHalf"}, c \in {2, 3}, h \in 1..MaxImage}

\* Filters: float, K x 2 with K in {2, 3}, kh x kw with kh + kw = MaxFilter + 1.
ShapeFilters ==
    {TensorDescriptor("miopenFloat", <<k, 2, kh, MaxFilter + 1 - kh>>) :
        k \in {2, 3}, kh \in 1..MaxFilter}

InitShape ==
    /\ FreshHandle
    /\ call \in [op : {"shape"}, d : ShapeDescriptors, x : ShapeInputs, w : ShapeFilters,
                 y : {<<>>}]
    /\ wsResult = Thrown("none")
    /\ layer = [dir |-> "fwd", shape |-> ShapeOf(P_1x1)]

ShapeFrame ==
    UNCHANGED <<device, caches, enable_profiling, kernel_time, kernels, perf_db, launched,
                returnedAlgoCount, perfResults, exec, ncalls, layer, winners>>

GetForwardOutputDimCall ==
    /\ pc = "idle" /\ call.op = "shape"
    /\ pc' = "forward"
    /\ call' = [call EXCEPT !.op = "GetForwardOutputDim"]
    /\ wsResult' = GetForwardOutputDim(call.d, call.x, call.w)
    /\ status' = wsResult'.status
    /\ ShapeFrame

\* The caller describes the output tensor by the lengths the forward function
\* returned and the type of the input.
ForwardOutputDesc ==
    TensorDescriptor(call.x.type, [i \in 1..4 |-> FromSizeT(wsResult.dims[i])])

HasForwardOutput ==
    /\ pc = "forward" /\ wsResult.status = "ok"
    /\ \A i \in 1..4 : IsSmall(wsResult.dims[i])

GetBackwardOutputDimCall ==
    /\ HasForwardOutput
    /\ pc' = "backward_data"
    /\ call' = [call EXCEPT !.op = "GetBackwardOutputDim", !.y = ForwardOutputDesc.len]
    /\ wsResult' = GetBackwardOutputDim(call.d, ForwardOutputDesc, call.w)
    /\ status' = wsResult'.status
    /\ ShapeFrame

GetBackwardsWeightsDimCall ==
    /\ HasForwardOutput
    /\ pc' = "backward_weights"
    /\ call' = [call EXCEPT !.op = "GetBackwardsWeightsDim", !.y = ForwardOutputDesc.len]
    /\ wsResult' = GetBackwardsWeightsDim(call.d, call.x, ForwardOutputDesc)
    /\ status' = wsResult'.status
    /\ ShapeFrame

NextShape ==
    GetForwardOutputDimCall \/ GetBackwardOutputDimCall \/ GetBackwardsWeightsDimCall

SpecShape == InitShape /\ [][NextShape]_vars

\* The descriptor of the call is in Convolution mode with Default padding.
DefaultConvolution ==
    call.d.mode = "miopenConvolution" /\ call.d.paddingMode = "miopenPaddingDefault"

ForwardReturned == pc = "forward" /\ wsResult.status = "ok"

\* C23: in Convolution mode with Default padding, stride 1 and dilation 1,
\* GetBackwardOutputDim(GetForwardOutputDim(input, filter), filter) returns the
\* height and width of the input.
C23_BackwardDataRoundTrip ==
    (pc = "backward_data" /\ DefaultConvolution /\ call.d.u = 1 /\ call.d.v = 1
     /\ call.d.dilation_h = 1 /\ call.d.dilation_w = 1)
        => /\ wsResult.status = "ok"
           /\ wsResult.dims[3] = ToBytes(call.x.len[3], SizeTBytes)
           /\ wsResult.dims[4] = ToBytes(call.x.len[4], SizeTBytes)

\* C24: in Convolution mode with Default padding and dilation 1, for every
\* stride and padding, GetBackwardsWeightsDim(input, GetForwardOutputDim(input,
\* filter)) returns the shape of the filter.
C24_BackwardWeightsRoundTrip ==
    (pc = "backward_weights" /\ DefaultConvolution
     /\ call.d.dilation_h = 1 /\ call.d.dilation_w = 1)
        => /\ wsResult.status = "ok"
           /\ wsResult.dims = [i \in 1..4 |-> ToBytes(call.w.len[i], SizeTBytes)]

\* C25: in Convolution mode with Default padding GetForwardOutputDim returns
\* (N, K, oh, ow) with oh = max(1, floor((H - (1 + dilation * (kh - 1)) +
\* 2 * pad_h) / stride_h) + 1) and ow likewise, floor being the mathematical
\* floor also for a negative numerator.
C25_ForwardExtent ==
    (ForwardReturned /\ DefaultConvolution) =>
        LET d == call.d
            x == call.x.len
            f == call.w.len
            oh == Max(1, ((x[3] - (1 + d.dilation_h * (f[3] - 1)) + 2 * d.pad_h) \div d.u) + 1)
            ow == Max(1, ((x[4] - (1 + d.dilation_w * (f[4] - 1)) + 2 * d.pad_w) \div d.v) + 1)
        IN  wsResult.dims = <<ToBytes(x[1], SizeTBytes), ToBytes(f[1], SizeTBytes),
                              ToBytes(oh, SizeTBytes), ToBytes(ow, SizeTBytes)>>

\* The numerator of the height is negative and no multiple of the stride, so
\* that truncation and floor differ before the clamp.
C25_Witness ==
    /\ ForwardReturned /\ DefaultConvolution
    /\ LET n == call.x.len[3] - (1 + call.d.dilation_h * (call.w.len[3] - 1)) + 2 * call.d.pad_h
       IN  n < 0 /\ n % call.d.u # 0
    /\ wsResult.dims[3] = ToBytes(1, SizeTBytes)

\* C26: the channel count GetForwardOutputDim returns is the filter's axis-0
\* length in Convolution mode and its axis-1 length in Transpose mode, in
\* every padding mode.
C26_OutputChannels ==
    ForwardReturned =>
        wsResult.dims[2] = ToBytes(IF call.d.mode = "miopenConvolution" THEN call.w.len[1]
                                   ELSE call.w.len[2], SizeTBytes)

\* C27: with padding mode Same GetForwardOutputDim returns ceil(in / stride),
\* with padding mode Valid ceil((in - k + 1) / stride), whatever pad and
\* dilation are.
C27_SameAndValidExtent ==
    ForwardReturned =>
        LET d == call.d
            x == call.x.len
            f == call.w.len
            Ceil(a, b) == -((-a) \div b)
            Is(dim, e) == e >= 0 /\ dim = ToBytes(e, SizeTBytes)
        IN  /\ d.paddingMode = "miopenPaddingSame" =>
                 /\ Is(wsResult.dims[3], Ceil(x[3], d.u))
                 /\ Is(wsResult.dims[4], Ceil(x[4], d.v))
            /\ d.paddingMode = "miopenPaddingValid" =>
                 /\ Is(wsResult.dims[3], Ceil(x[3] - f[3] + 1, d.u))
                 /\ Is(wsResult.dims[4], Ceil(x[4] - f[4] + 1, d.v))

\* C28: GetForwardOutputDim raises BadParm exactly when the element types
\* differ or the input channel count differs from the filter's axis-1 length
\* (Convolution) or axis-0 length (Transpose); otherwise it returns a shape.
C28_ForwardRejects ==
    pc = "forward" =>
        LET mismatch == \/ call.x.type # call.w.type
                        \/ (call.d.mode = "miopenConvolution"
                            /\ call.x.len[2] # call.w.len[2])
                        \/ (call.d.mode = "miopenTranspose"
                            /\ call.x.len[2] # call.w.len[1])
        IN  /\ (wsResult.status = "miopenStatusBadParm") = mismatch
            /\ ~mismatch => (wsResult.status = "ok" /\ Len(wsResult.dims) = 4)

\* Equal types, Transpose mode, input channels equal to the filter's axis 0
\* and different from its axis 1: a shape is returned.
C28_Witness ==
    /\ pc = "forward" /\ call.d.mode = "miopenTranspose"
    /\ call.x.type = call.w.type
    /\ call.x.len[2] = call.w.len[1] /\ call.x.len[2] # call.w.len[2]
    /\ wsResult.status = "ok"

\* C39: in both modes GetBackwardOutputDim, applied to the shape
\* GetForwardOutputDim returned and the same filter, raises no error and
\* returns the channel count of the original input.
C39_BackwardDataChannels ==
    pc = "backward_data" =>
        /\ wsResult.status = "ok"
        /\ wsResult.dims[2] = ToBytes(call.x.len[2], SizeTBytes)

\* A returned extent is the value of a formula that is at least 1.
PositiveExtent(b) == IsSmall(b) /\ FromSizeT(b) >= 1

\* C40: every height and width GetForwardOutputDim, GetBackwardOutputDim and
\* GetBackwardsWeightsDim return is at least 1, never a zero or a negative
\* value converted to a large unsigned integer.
C40_ExtentsPositive ==
    (pc \in {"forward", "backward_data", "backward_weights"} /\ wsResult.status = "ok")
        => (PositiveExtent(wsResult.dims[3]) /\ PositiveExtent(wsResult.dims[4]))

\* Place of a candidate in the order GEMM variants, Winograd, Direct, FFT.
Priority(op, name) ==
    LET algo == Resolver(op, name)
    IN  IF algo \in {0, 4} THEN 1 ELSE IF algo = 3 THEN 2 ELSE IF algo = 1 THEN 3 ELSE 4

\* C31: within a search call of any direction the strategies are attempted
\* in the order GEMM variants, Winograd, Direct, FFT: the candidate list is
\* appended in that order and no kernel of another strategy is launched
\* before the GEMM attempt of the call.
C31_FixedOrder ==
    (IsSearchOp(call.op) /\ pc # "idle") =>
        /\ \A i, j \in 1..Len(perf_db) :
             i < j => Priority(call.op, perf_db[i].name) < Priority(call.op, perf_db[j].name)
        /\ pc \in {"fwd_gemm", "bwdData_gemm", "bwdWeights_gemm"} => launched = <<>>

\* The GEMM step of a forward or backward-data search in Convolution mode is
\* over and has recorded a candidate.
GemmBenchmarked ==
    /\ \/ PastFwdGemm
       \/ (call.op = "FindConvBwdDataAlgorithm" /\ pc = "finish")
    /\ call.p.mode = "miopenConvolution"
    /\ \E i \in 1..Len(perf_db) : Priority(call.op, perf_db[i].name) = 1

\* The GEMM sub-path the launches of the call belong to.
SubPathTaken ==
    IF Launched("transpose_NCHW2CNHW") THEN "transpose"
    ELSE IF Launched("Im2ColGPU") \/ Launched("Col2ImGPU") THEN "transform"
    ELSE "pure"

\* The sub-path the filter size, stride, padding and dilation select.
SubPathOfShape(op, p) ==
    LET one == p.w[3] = 1 /\ p.w[4] = 1 /\ p.pad_h = 0 /\ p.pad_w = 0
               /\ p.dilation_h = 1 /\ p.dilation_w = 1
    IN  IF one /\ p.u = 2 /\ p.v = 2 THEN "transpose"
        ELSE IF one /\ p.u = 1 /\ p.v = 1
        THEN IF op = "FindConvFwdAlgorithm" /\ p.x[3] <= 14 /\ p.x[4] <= 14
             THEN "transpose" ELSE "pure"
        ELSE "transform"

\* C32: a search call that benchmarks GEMM records one GEMM candidate, from
\* exactly one of the sub-paths pure GEMM, GEMM with transpose, GEMM with
\* im2col / col2im, and the sub-path is the one the filter size, stride and
\* padding select, whatever the size of the caller's workspace.
C32_OneGemmSubPath ==
    GemmBenchmarked =>
        /\ Cardinality({i \in 1..Len(perf_db) : Priority(call.op, perf_db[i].name) = 1}) = 1
        /\ ~(Launched("transpose_NCHW2CNHW")
             /\ (Launched("Im2ColGPU") \/ Launched("Col2ImGPU")))
        /\ SubPathTaken = SubPathOfShape(call.op, call.p)

\* An execute call with the GEMM algorithm in Convolution mode has returned.
GemmExecuted ==
    /\ IsExecuteOp(call.op) /\ status = "ok" /\ call.bad = "none"
    /\ call.algo = 0 /\ call.p.mode = "miopenConvolution"

LaunchCount(name) == Cardinality({i \in 1..Len(launched) : launched[i] = name})

\* C33: in the GEMM execute paths for a batch of N samples the im2col /
\* col2im path launches its transform and its GEMM once per sample, and the
\* path of a 1x1 filter with unit stride and zero padding processes the batch
\* with a single GEMM launch.
C33_PerSampleLoop ==
    GemmExecuted =>
        LET p == call.p
            N == p.x[1]
        IN  /\ Launched("Im2ColGPU") =>
                 (LaunchCount("Im2ColGPU") = N /\ LaunchCount("RunGemm") = N)
            /\ Launched("Col2ImGPU") =>
                 (LaunchCount("Col2ImGPU") = N /\ LaunchCount("RunGemm") = N)
            /\ (p.w[3] = 1 /\ p.w[4] = 1 /\ p.u = 1 /\ p.v = 1 /\ p.pad_h = 0 /\ p.pad_w = 0
                /\ p.dilation_h = 1 /\ p.dilation_w = 1) => LaunchCount("RunGemm") = 1

\* C36: when the forward or backward-data search of a Convolution-mode
\* problem recorded a GEMM candidate, the matching execute call with the GEMM
\* algorithm launches a GEMM for each of the N samples (or one for the whole
\* batch on the transpose path), also for a 1x1 filter with unit stride and
\* non-zero padding.
C36_ExecuteRunsRecordedGemm ==
    (GemmExecuted /\ call.op \in {"ConvolutionForward", "ConvolutionBackwardData"}
     /\ exec.recorded)
        => IF Launched("transpose_NCHW2CNHW") THEN LaunchCount("RunGemm") = 1
           ELSE LaunchCount("RunGemm") = call.p.x[1]

\* C37: an execute call that returns without an error has launched the
\* kernels of the requested algorithm: with the FFT algorithm and a workspace
\* that is null or too small, with the Direct backward-weights algorithm and
\* a filter narrower than high, and with miopenTransposeBwdDataAlgoGEMM in
\* Convolution mode, the call runs the strategy or raises an error.
C37_NoSilentReturn ==
    (IsExecuteOp(call.op) /\ status = "ok" /\ call.bad = "none")
        => \E i \in 1..Len(launched) : launched[i] # "SetTensor"

\* C38: every result entry a benchmarking search writes has a memory value
\* that is at most the workSpaceSize of the call, and greater than 0 only if
\* the workspace pointer of the call was non-null.
C38_ResultsFitWorkSpace ==
    SearchRanked =>
        \A i \in 1..returnedAlgoCount :
            /\ perfResults[i].memory <= call.workSpaceSize
            /\ perfResults[i].memory > 0 => call.workSpace

\* A search given a null pointer with a non-zero size has passed over a
\* strategy that needs workspace and reported the others.
C38_Witness ==
    /\ SearchRanked /\ ~call.workSpace /\ call.workSpaceSize > 0
    /\ call.skipped # {} /\ returnedAlgoCount >= 1
    /\ \A i \in 1..returnedAlgoCount : perfResults[i].memory = 0

(***************************************************************************)
(* Time accounting of the execute functions (ocl/convolutionocl.cpp).      *)
(* The calls below have valid arguments, a sufficient workspace and their  *)
(* kernels registered; every kernel launch is a step of its own with a     *)
(* duration of its own, and the bookkeeping the code does between two      *)
(* launches belongs to the step of the launch it follows.                  *)
(***************************************************************************)
MaxBatch == 3

MaxTimedCalls == 2

\* <<filter extent, pad, stride, image extent>>
TimedShapes == {<<1, 0, 1, 16>>, <<1, 1, 1, 4>>, <<1, 0, 2, 4>>,
                <<3, 1, 1, 4>>, <<5, 2, 1, 4>>, <<11, 0, 1, 16>>}

\* A convolution-mode problem of batch size n; the solver answers with two
\* kernels for the 11x11 forward filter, for the strided 1x1 and for the 5x5
\* weight gradient.
TimedProblem(s, n) ==
    LET k == s[1]
        out == ((s[4] + 2 * s[2] - k) \div s[3]) + 1
        wrw == IF k = 1 /\ s[3] = 2 THEN <<"SubSample", "gcnAsmConv1x1WrW">>
               ELSE IF k = 5 THEN <<"MIOpenCvBwdWrW", "MIOpenCvBwdWrW_rdc">>
               ELSE <<"MIOpenCvBwdWrW">>
        p == Problem(Desc("miopenConvolution", s[2], s[3], 1),
                     <<n, 2, s[4], s[4]>>, <<2, 2, k, k>>, <<n, 2, out, out>>,
                     <<0, wrw, 64, 0>>)
    IN  IF k = 11
        THEN [p EXCEPT !.direct_kernels = <<"MIOpenCvFwd11x11", "MIOpenCvFwd11x11_2">>]
        ELSE p

TimedProblems == {TimedProblem(s, n) : s \in TimedShapes, n \in 1..MaxBatch}

TimedOps == {"ConvolutionForward", "ConvolutionBackwardData", "ConvolutionBackwardWeights"}

\* GEMM and Direct
TimedAlgos == 0..1

TimedArgs(algo) == [algo |-> algo, ws |-> [ptr |-> TRUE, size |-> 0], bad |-> "none"]

TimedPlan(op, p, algo) ==
    CASE op = "ConvolutionForward" -> ConvolutionForwardPlan(p, TimedArgs(algo))
      [] op = "ConvolutionBackwardData" -> ConvolutionBackwardDataPlan(p, TimedArgs(algo))
      [] op = "ConvolutionBackwardWeights" ->
            ConvolutionBackwardWeightsPlan(p, TimedArgs(algo))

\* The searches for the problems have run: their kernels are registered.
TimedKernels ==
    UNION {TimedPlan(op, p, algo).lookups :
              op \in TimedOps, p \in TimedProblems, algo \in TimedAlgos}

InitTimed ==
    /\ device \in Devices
    /\ fwd_size_map = EmptyMap
    /\ bwdData_size_map = EmptyMap
    /\ bwdWeights_size_map = EmptyMap
    /\ fwd_map = EmptyMap
    /\ bwdData_map = EmptyMap
    /\ bwdWeights_map = EmptyMap
    /\ enable_profiling = FALSE
    /\ kernel_time = 0
    /\ kernels = TimedKernels
    /\ pc = "idle"
    /\ perf_db = <<>>
    /\ launched = <<>>
    /\ returnedAlgoCount = 0
    /\ perfResults = <<>>
    /\ status = "none"
    /\ exec = NoExec
    /\ ncalls = 0
    /\ winners = EmptyMap
    /\ call = NoCall
    /\ wsResult = 0
    /\ layer = [dir |-> "fwd", shape |-> ShapeOf(P_1x1)]

\* A kernel launch on the handle: with profiling enabled the handle's kernel
\* time becomes the duration d of the launch.
LaunchKernel(h, d) == IF enable_profiling THEN d ELSE h

AccumKernelTime(h, t) == h + t

ResetKernelTime == 0

\* The locals of a running execute call: the handle's kernel time h, and the
\* accumulators time_0 and t1 (time0 in the two-kernel branches).
Locals(h, time_0, t1) == [h |-> h, time_0 |-> time_0, t1 |-> t1]

\* Transpose-path GEMM: t1 collects every launch, then Reset and Accum(t1).
StraightStep(k, n, h1, st) ==
    IF ~enable_profiling THEN Locals(h1, st.time_0, st.t1)
    ELSE LET t1 == IF k = 1 THEN h1 ELSE st.t1 + h1
         IN  Locals(IF k = n THEN AccumKernelTime(ResetKernelTime, t1) ELSE h1,
                    st.time_0, t1)

\* Pure GEMM loop: one RunGemm per sample.
PureStep(last, h1, st) ==
    IF ~enable_profiling THEN Locals(h1, st.time_0, st.t1)
    ELSE LET h2 == IF last THEN AccumKernelTime(h1, st.time_0) ELSE h1
         IN  Locals(h2, st.time_0 + h2, st.t1)

\* Transform loop: two launches per sample; t1 is read after the first one,
\* the accumulation follows the second one.
TransformStep(second, last, h1, st) ==
    IF ~enable_profiling THEN Locals(h1, st.time_0, st.t1)
    ELSE IF ~second THEN Locals(h1, st.time_0, h1)
    ELSE LET h2 == IF last THEN AccumKernelTime(h1, st.t1 + st.time_0)
                   ELSE AccumKernelTime(h1, st.t1)
         IN  Locals(h2, st.time_0 + h2, st.t1)

\* The mutant does not add the first kernel's time.
TwoKernelStepSecondOnly(k, h1, st) == Locals(h1, st.time_0, h1)

\* Two-kernel direct branches: time0 is read after the first kernel and
\* accumulated after the second, whether or not profiling is enabled.
TwoKernelStep(k, h1, st) ==
    IF k = 1 THEN Locals(h1, st.time_0, h1)
    ELSE Locals(AccumKernelTime(h1, st.t1), st.time_0, st.t1)

\* The bookkeeping a branch does around its launches.
AccountingOf(plan, p) ==
    IF plan.path = "gemm_transpose" THEN "straight"
    ELSE IF plan.path = "gemm_pure" THEN "pure"
    ELSE IF plan.path \in {"gemm_im2col", "gemm_col2im"} THEN "transform"
    ELSE IF plan.path = "gemm" THEN (IF NeedsTransform(p) THEN "transform" ELSE "pure")
    ELSE IF Len(plan.names) = 2 THEN "two"
    ELSE "one"

TimedFrame ==
    UNCHANGED <<device, caches, enable_profiling, kernels, perf_db, returnedAlgoCount,
                perfResults, wsResult, layer, winners>>

\* Entry of an execute call up to its first launch.  The backward-weights
\* GEMM branch launches SetTensor before it resets the time; the other
\* resetting branches reset before their first launch.
TimedCall(op, p, algo) ==
    LET plan == TimedPlan(op, p, algo)
        names == plan.pre \o plan.names
        skip == IF plan.path = "gemm" THEN Len(plan.pre) ELSE 0
    IN  /\ pc = "idle"
        /\ ncalls < MaxTimedCalls
        /\ plan.lookups \subseteq kernels
        /\ call' = [op |-> op, p |-> p, algo |-> algo, workSpace |-> TRUE,
                    workSpaceSize |-> plan.required, bad |-> "none"]
        /\ exec' = [path |-> plan.path, recorded |-> FALSE,
                    accounting |-> AccountingOf(plan, p), names |-> names,
                    skip |-> skip, time_0 |-> 0, t1 |-> 0, durations |-> <<>>]
        /\ launched' = <<>>
        /\ kernel_time' = IF plan.reset /\ skip = 0 THEN ResetKernelTime ELSE kernel_time
        /\ pc' = IF names = <<>> THEN "idle" ELSE "executing"
        /\ status' = IF names = <<>> THEN "ok" ELSE "none"
        /\ ncalls' = ncalls + 1
        /\ TimedFrame

ConvolutionForwardTimed ==
    \E p \in TimedProblems, algo \in TimedAlgos : TimedCall("ConvolutionForward", p, algo)

ConvolutionBackwardDataTimed ==
    \E p \in TimedProblems, algo \in TimedAlgos :
        TimedCall("ConvolutionBackwardData", p, algo)

ConvolutionBackwardWeightsTimed ==
    \E p \in TimedProblems, algo \in TimedAlgos :
        TimedCall("ConvolutionBackwardWeights", p, algo)

\* The next kernel of the running call is launched and takes d.
LaunchStep ==
    /\ pc = "executing"
    /\ \E d \in Times :
         LET k == Len(launched) + 1
             n == Len(exec.names)
             j == k - exec.skip
             h1 == LaunchKernel(kernel_time, d)
             st == Locals(kernel_time, exec.time_0, exec.t1)
             after ==
                 IF j <= 0 THEN Locals(ResetKernelTime, st.time_0, st.t1)
                 ELSE CASE exec.accounting = "straight" -> StraightStep(k, n, h1, st)
                        [] exec.accounting = "pure" -> PureStep(k = n, h1, st)
                        [] exec.accounting = "transform" ->
                              TransformStep(j % 2 = 0, k = n, h1, st)
                        [] exec.accounting = "two" -> TwoKernelStep(k, h1, st)
                        [] exec.accounting = "one" -> Locals(h1, st.time_0, st.t1)
         IN  /\ launched' = Append(launched, exec.names[k])
             /\ kernel_time' = after.h
             /\ exec' = [exec EXCEPT !.time_0 = after.time_0, !.t1 = after.t1,
                                     !.durations = Append(@, d)]
             /\ pc' = IF k = n THEN "idle" ELSE "executing"
             /\ status' = IF k = n THEN "ok" ELSE "none"
    /\ UNCHANGED <<call, ncalls>>
    /\ TimedFrame

NextTimed ==
    \/ EnableProfiling
    \/ ConvolutionForwardTimed
    \/ ConvolutionBackwardDataTimed
    \/ ConvolutionBackwardWeightsTimed
    \/ LaunchStep

SpecTimed == InitTimed /\ [][NextTimed]_vars

\* A timed GEMM call whose branch loops over the samples has returned.
LoopReturned ==
    /\ pc = "idle"
    /\ call.op \in TimedOps
    /\ call.algo = 0
    /\ exec.accounting \in {"pure", "transform"}
    /\ enable_profiling

LoopDurations == SubSeq(exec.durations, exec.skip + 1, Len(exec.durations))

\* C34: with profiling enabled, after a GEMM execute call that loops over its
\* N >= 1 samples the handle's kernel time is the sum of the durations of all
\* kernels launched in the loop, for N = 1 too.
C34_LoopTimeIsSum == LoopReturned => kernel_time = SumOf(LoopDurations)

\* The same for the calls whose loop launched a kernel.
LoopTimeIsSumWhenLaunched ==
    (LoopReturned /\ LoopDurations # <<>>) => kernel_time = SumOf(LoopDurations)

\* C35: a two-kernel direct branch launches its first kernel, then its second,
\* never the second without or before the first, and reports the sum of the
\* two kernels' times.
C35_TwoKernelsInOrder ==
    (call.op \in TimedOps /\ exec.accounting = "two") =>
        /\ launched = SubSeq(exec.names, 1, Len(launched))
        /\ pc = "idle" =>
             /\ launched = exec.names
             /\ enable_profiling =>
                  kernel_time = exec.durations[1] + exec.durations[2]

C35_Witness ==
    /\ pc = "idle"
    /\ call.op = "ConvolutionBackwardWeights"
    /\ exec.accounting = "two"
    /\ enable_profiling
    /\ launched = <<"SubSample", "gcnAsmConv1x1WrW">>
    /\ exec.durations = <<2, 1>>
    /\ kernel_time = 3

====
